---- MODULE Spec2Model ----
(***************************************************************************)
(* Model of the MongoDB compatibility advisor / sizing script.             *)
(*   src/unnamed/part_001  seven-mode script (classifier, sizing, report)  *)
(*   src/mongoAssess.js    six-mode script (classifier, report)            *)
(* The keyword classifier and the sizing estimator are pure functions;     *)
(* they are modelled as operators and applied by the actions of            *)
(* SpecAnalyze and SpecSizing to inputs drawn in Init.  main() is modelled *)
(* as a program-counter machine in SpecMain.                               *)
(***************************************************************************)
EXTENDS Integers, Sequences, FiniteSets, TLC

VARIABLES
    pc,                      \* position of the run
    data,                    \* analyze_keywords: the loaded profile entries
    supported_dictionary,    \* analyze_keywords: keyword -> count, insertion order
    not_supported_dictionary,
    supported_commands,      \* analyze_keywords: entries without triggers
    not_supported_commands,  \* analyze_keywords: [entry, command_category]
    summary,                 \* summarize_keywords result
    metrics,                 \* perform_sizing: the metrics snapshot
    cpu,                     \* calculate_cpu_cores result
    memory,                  \* calculate_memory_requirements result
    storage_required_bytes,  \* calculate_storage_requirements result
    network_bandwidth_mb_sec, \* calculate_network_bandwidth result
    connection_limits,       \* calculate_connection_limits result
    mode,                    \* main: the answer to "Enter the mode number: "
    rl,                      \* main: the readline interface, "open" or "closed"
    console,                 \* main: what console.log / console.error printed
    calls,                   \* main: the functions of the script called so far
    files_written,           \* main: the files written by fs.writeFileSync
    metrics_data,            \* main, modes 5 and 7: what came of load_json
    report_args,             \* generate_html_report: its metrics and sizing arguments
    html,                    \* generate_html_report: html_content, part by part
    client,                  \* main: the MongoClient of the mode
    client_closes,           \* main: how many times client.close() was called
    db_commands,             \* main: the database operations issued, in order
    databases                \* collect_lifetime_metrics: databases.databases

analyzeVars == << data, supported_dictionary, not_supported_dictionary,
                  supported_commands, not_supported_commands, summary >>
sizingVars == << metrics, cpu, memory, storage_required_bytes,
                 network_bandwidth_mb_sec, connection_limits >>
mainVars == << mode, rl, console, calls, files_written, metrics_data >>
reportVars == << report_args, html >>
clientVars == << client, client_closes, db_commands, databases >>
vars == << pc, analyzeVars, sizingVars, mainVars, reportVars, clientVars >>

(***************************************************************************)
(* Keyword catalog (identical in both scripts).                            *)
(***************************************************************************)
supported_keywords ==
    << "$gt", "$gte", "$lt", "$and", "$not", "$or", "$nor", "$ne", "$eq", "$in", "$lte",
       "$nin", "$exists", "$type", "$regex", "$text", "$near", "$nearSphere", "$size",
       "$natural", "$inc", "$min", "$max", "$rename", "$set", "$addToSet", "$pop", "$pull",
       "$push", "$pullAll", "$each", "$position", "$sort", "$bit", "$count", "$limit",
       "$match", "$skip", "$slice", "$group", "$project", "$arrayElemAt" >>

not_supported_keywords ==
    << "$expr", "$jsonSchema", "$mod", "$geoIntersects", "$geoWithin", "$box", "$center",
       "$centerSphere", "$maxDistance", "$minDistance", "$polygon", "$all", "$bitsAllClear",
       "$bitsAllSet", "$bitsAnyClear", "$bitsAnySet", "$elemMatch", "$rand", "$currentData",
       "$mul", "$setOnInsert", "$abs", "$accumulator", "$acos", "$acosh", "$addFields",
       "$bucket", "$bucketAuto", "$changeStream", "$collStats", "$currentOp", "$densify",
       "$documents", "$facet", "$fill", "$geoNear", "$graphLookup", "$indexStats", "$lookup",
       "$merge", "$out", "$redact", "$replaceRoot", "$replaceWith", "$sample", "$search",
       "$searchMeta", "$setWindowFields", "$sortByCount", "$unionWith", "$unset", "$unwind",
       "$add", "$allElementsTrue", "$anyElementTrue", "$arrayToObject", "$asin", "$asinh",
       "$atan", "$atan2", "$atanh", "$avg", "$binarySize", "$bottom", "$bottomN", "$bsonSize",
       "$ceil", "$cmp", "$concat", "$concatArrays", "$cond", "$convert", "$cosh",
       "$covariancePop", "$covarianceSamp", "$dateAdd", "$dateDiff", "$dateFromParts",
       "$dateFromString", "$datesubtract", "$dateToParts", "$dateToString", "$dateTrunc",
       "$dayOfMonth", "$dayOfWeek", "$dayOfYear", "$degreesToRadians", "$denseRank",
       "$derivative", "$divide", "$documentNumber", "$exp", "$expMovingAvg", "$filter",
       "$first", "$firstN", "$floor", "$function", "$getField", "$hour", "$ifNull",
       "$indexOfArray", "$indexOfBytes", "$indexOfCP", "$integral", "$isArray", "$isNumber",
       "$isoDayOfWeek", "$isoWeek", "$isoWeekYear", "$last", "$lastN", "$let", "$linearFill",
       "$literal", "$ln", "$log", "$log10", "$ltrim", "$map", "$maxN", "$mergeObjects",
       "$meta", "$minN", "$millisecond", "$minute", "$month", "$multiply", "$objectToArray",
       "$pow", "$radiansToDegrees", "$range", "$rank", "$reduce", "$regexFind",
       "$regexFindAll", "$regexMatch", "$replaceOne", "$replaceAll", "$reverseArray", "$round",
       "$rtrim", "$sampleRate", "$second", "$setDifference", "$setEquals", "$setField",
       "$setIntersection", "$setIsSubset", "$setUnion", "$shift", "$sin", "$sinh",
       "$sortArray", "$split", "$sqrt", "$stsDevPop", "$stsDevSamp", "$strLenBytes",
       "$strcasecmp", "$strLenCP", "$substr", "$substrCP", "$subtract", "$sum", "$switch",
       "$tan", "$tanh", "$toBool", "$toDate", "$toDecimal", "$toDouble", "$toInt", "$toLong",
       "$toObjectId", "$top", "$topN", "$toString", "$toLower", "$toUpper", "$tsIncrement",
       "$tsSecond", "$trim", "$trunc", "$unsetField", "$week", "$year", "$zip" >>

Range(s) == { s[i] : i \in 1..Len(s) }

\* Array.prototype.includes
Includes(list, x) == \E i \in 1..Len(list) : list[i] = x

(***************************************************************************)
(* JSON values.  A value is a record [t, s, kv]: t is the JavaScript kind, *)
(* s the text of a string, kv the own enumerable properties in for-in      *)
(* order (for an array: the indices "0", "1", ... and the elements).       *)
(***************************************************************************)
Str(s) == [t |-> "string", s |-> s, kv |-> << >>]
Obj(kv) == [t |-> "object", s |-> "", kv |-> kv]
IndexKey == << "0", "1", "2", "3" >>
Arr(el) == [t |-> "array", s |-> "", kv |-> [i \in 1..Len(el) |-> [k |-> IndexKey[i], v |-> el[i]]]]
Prop(k, v) == [k |-> k, v |-> v]

\* typeof obj === 'object' && obj !== null  (an array is an object too)
IsObject(obj) == obj.t \in {"object", "array"}
\* Array.isArray(obj)
IsArray(obj) == obj.t = "array"

\* The strings of the model that begin with '$': every catalog token, the
\* tokens of neither catalog, and the '$'-strings used as values.
UnrecognizedTokens == {"$comment", "$Expr"}
DollarStrings == Range(supported_keywords) \cup Range(not_supported_keywords) \cup UnrecognizedTokens
\* key.startsWith('$')
StartsWithDollar(key) == key \in DollarStrings

(***************************************************************************)
(* Count maps: a JavaScript object used as a dictionary, kept as the       *)
(* sequence of its [key, count] properties in insertion order.             *)
(***************************************************************************)
HasKey(dict, key) == \E i \in 1..Len(dict) : dict[i].key = key
\* dict[key] || 0
Get(dict, key) == IF HasKey(dict, key)
                  THEN (CHOOSE p \in Range(dict) : p.key = key).count
                  ELSE 0
\* Increment with the default of a missing count taken as 1
IncrementFromOne(dict, key) ==
    IF HasKey(dict, key)
    THEN [i \in 1..Len(dict) |-> IF dict[i].key = key
                                 THEN [dict[i] EXCEPT !.count = @ + 1]
                                 ELSE dict[i]]
    ELSE Append(dict, [key |-> key, count |-> 2])

\* dict[key] = (dict[key] || 0) + 1
Increment(dict, key) ==
    IF HasKey(dict, key)
    THEN [i \in 1..Len(dict) |-> IF dict[i].key = key
                                 THEN [dict[i] EXCEPT !.count = @ + 1]
                                 ELSE dict[i]]
    ELSE Append(dict, [key |-> key, count |-> 1])

(***************************************************************************)
(* traverse(obj, command_category): the accumulator acc carries the two    *)
(* dictionaries of the enclosing analyze_keywords call and the entry's     *)
(* command_category array.                                                 *)
(***************************************************************************)
\* VisitKey with an if for the else if: a key is looked up in both catalogs
\* and a supported key is counted in the not-supported map as well
VisitKeyBothMaps(key, acc) ==
    IF StartsWithDollar(key)
    THEN IF Includes(supported_keywords, key)
         THEN [acc EXCEPT !.sd = Increment(@, key), !.nsd = Increment(@, key)]
         ELSE IF Includes(not_supported_keywords, key)
              THEN [acc EXCEPT !.nsd = Increment(@, key),
                               !.cc = IF Includes(@, key) THEN @ ELSE Append(@, key)]
              ELSE acc
    ELSE acc

\* VisitKey without the command_category.includes(key) test
VisitKeyNoDedupe(key, acc) ==
    IF StartsWithDollar(key)
    THEN IF Includes(supported_keywords, key)
         THEN [acc EXCEPT !.sd = Increment(@, key)]
         ELSE IF Includes(not_supported_keywords, key)
              THEN [acc EXCEPT !.nsd = Increment(@, key), !.cc = Append(@, key)]
              ELSE acc
    ELSE acc

VisitKey(key, acc) ==
    IF StartsWithDollar(key)
    THEN IF Includes(supported_keywords, key)
         THEN [acc EXCEPT !.sd = Increment(@, key)]
         ELSE IF Includes(not_supported_keywords, key)
              THEN [acc EXCEPT !.nsd = Increment(@, key),
                               !.cc = IF Includes(@, key) THEN @ ELSE Append(@, key)]
              ELSE acc
    ELSE acc

RECURSIVE traverse(_, _)
RECURSIVE traverseProps(_, _, _)
\* traverseProps without the recursive call on obj[key]
traversePropsShallow(kv, i, acc) ==
    IF i > Len(kv) THEN acc
    ELSE traverseProps(kv, i + 1, VisitKey(kv[i].k, acc))

\* the body of  for (let key in obj)  from property i on
traverseProps(kv, i, acc) ==
    IF i > Len(kv) THEN acc
    ELSE traverseProps(kv, i + 1, traverse(kv[i].v, VisitKey(kv[i].k, acc)))

RECURSIVE traverseItems(_, _, _)
\* obj.forEach(item => traverse(item, command_category))
traverseItems(kv, i, acc) ==
    IF i > Len(kv) THEN acc
    ELSE traverseItems(kv, i + 1, traverse(kv[i].v, acc))

traverse(obj, acc) ==
    IF IsObject(obj) THEN traverseProps(obj.kv, 1, acc)
    ELSE IF IsArray(obj) THEN traverseItems(obj.kv, 1, acc)
    ELSE acc

\* entry.op  (undefined when the property is absent)
HasProp(obj, k) == \E i \in 1..Len(obj.kv) : obj.kv[i].k = k
PropOf(obj, k) == (CHOOSE p \in Range(obj.kv) : p.k = k).v
\* IsCommand without the comparison with 'command'
IsCommandAnyOp(entry) == HasProp(entry, "op")

\* entry.op && entry.op === 'command'
IsCommand(entry) == HasProp(entry, "op") /\ PropOf(entry, "op") = Str("command")

EmptyResult == [sd |-> << >>, nsd |-> << >>, sc |-> << >>, nsc |-> << >>]

\* analyzeEntry pushing the entry to supported_commands without the else
analyzeEntryPushBoth(entry, r) ==
    IF IsCommand(entry)
    THEN LET a == traverse(entry, [sd |-> r.sd, nsd |-> r.nsd, cc |-> << >>])
         IN  IF Len(a.cc) > 0
             THEN [sd |-> a.sd, nsd |-> a.nsd, sc |-> Append(r.sc, entry),
                   nsc |-> Append(r.nsc, [entry |-> entry, command_category |-> a.cc])]
             ELSE [sd |-> a.sd, nsd |-> a.nsd, sc |-> Append(r.sc, entry), nsc |-> r.nsc]
    ELSE r

\* analyzeEntry with unshift for push: the entry goes to the front
analyzeEntryUnshift(entry, r) ==
    IF IsCommand(entry)
    THEN LET a == traverse(entry, [sd |-> r.sd, nsd |-> r.nsd, cc |-> << >>])
         IN  IF Len(a.cc) > 0
             THEN [sd |-> a.sd, nsd |-> a.nsd, sc |-> r.sc,
                   nsc |-> << [entry |-> entry, command_category |-> a.cc] >> \o r.nsc]
             ELSE [sd |-> a.sd, nsd |-> a.nsd, sc |-> << entry >> \o r.sc, nsc |-> r.nsc]
    ELSE r

\* one call of the data.forEach callback
analyzeEntry(entry, r) ==
    IF IsCommand(entry)
    THEN LET a == traverse(entry, [sd |-> r.sd, nsd |-> r.nsd, cc |-> << >>])
         IN  IF Len(a.cc) > 0
             THEN [sd |-> a.sd, nsd |-> a.nsd, sc |-> r.sc,
                   nsc |-> Append(r.nsc, [entry |-> entry, command_category |-> a.cc])]
             ELSE [sd |-> a.sd, nsd |-> a.nsd, sc |-> Append(r.sc, entry), nsc |-> r.nsc]
    ELSE r

RECURSIVE forEachEntry(_, _, _)
forEachEntry(d, i, r) ==
    IF i > Len(d) THEN r ELSE forEachEntry(d, i + 1, analyzeEntry(d[i], r))

analyze_keywords(d) == forEachEntry(d, 1, EmptyResult)

(***************************************************************************)
(* summarize_keywords.  A JavaScript number that is a quotient is kept as  *)
(* the exact fraction [num, den]; den = 0 stands for the NaN or Infinity   *)
(* of a division by zero.                                                  *)
(***************************************************************************)
RECURSIVE reduceAdd(_, _)
\* Object.values(dict).reduce((a, b) => a + b, 0)
reduceAdd(dict, i) ==
    IF i > Len(dict) THEN 0 ELSE dict[i].count + reduceAdd(dict, i + 1)

\* summarize_keywords dividing by total_not_supported
summarize_keywordsWrongTotal(sd, nsd) ==
    LET total_supported == reduceAdd(sd, 1)
        total_not_supported == reduceAdd(nsd, 1)
        total_keywords == total_supported + total_not_supported
    IN  [total_keywords |-> total_keywords,
         total_supported |-> total_supported,
         total_not_supported |-> total_not_supported,
         supported_percent |->
             IF total_keywords > 0
             THEN [num |-> total_supported * 100, den |-> total_not_supported]
             ELSE [num |-> 0, den |-> 1]]

summarize_keywords(sd, nsd) ==
    LET total_supported == reduceAdd(sd, 1)
        total_not_supported == reduceAdd(nsd, 1)
        total_keywords == total_supported + total_not_supported
    IN  [total_keywords |-> total_keywords,
         total_supported |-> total_supported,
         total_not_supported |-> total_not_supported,
         supported_percent |->
             IF total_keywords > 0
             THEN [num |-> total_supported * 100, den |-> total_keywords]
             ELSE [num |-> 0, den |-> 1]]

(***************************************************************************)
(* Report renderer.  A text is the sequence of its characters.             *)
(* html_content is kept as the sequence of its parts; a part that lists an *)
(* entry carries the text put inside its <pre> element.                    *)
(***************************************************************************)
\* the characters of the strings that occur in profile entries
StringChars ==
    [s \in {"$gt", "$expr", "$mod", "$comment", "a", "op", "command", "query"} |->
        CASE s = "$gt" -> << "$", "g", "t" >>
          [] s = "$expr" -> << "$", "e", "x", "p", "r" >>
          [] s = "$mod" -> << "$", "m", "o", "d" >>
          [] s = "$comment" -> << "$", "c", "o", "m", "m", "e", "n", "t" >>
          [] s = "a" -> << "a" >>
          [] s = "op" -> << "o", "p" >>
          [] s = "command" -> << "c", "o", "m", "m", "a", "n", "d" >>
          [] s = "query" -> << "q", "u", "e", "r", "y" >>]
\* `"${keyword}"` and the quoted strings of JSON.stringify
Quoted(s) == << "\"" >> \o StringChars[s] \o << "\"" >>
Spaces(n) == [i \in 1..n |-> " "]

RECURSIVE Stringify(_, _)
RECURSIVE StringifyMembers(_, _, _)
\* the members of an object or array from member i on, one per line
StringifyMembers(v, i, indent) ==
    IF i > Len(v.kv) THEN << >>
    ELSE Spaces(indent)
         \o (IF v.t = "object" THEN Quoted(v.kv[i].k) \o << ":", " " >> ELSE << >>)
         \o Stringify(v.kv[i].v, indent)
         \o (IF i < Len(v.kv) THEN << "," >> ELSE << >>)
         \o << "\n" >>
         \o StringifyMembers(v, i + 1, indent)
\* JSON.stringify(v, null, 4), v written at nesting column indent
Stringify(v, indent) ==
    IF v.t = "string" THEN Quoted(v.s)
    ELSE LET open == IF v.t = "object" THEN "{" ELSE "["
             close == IF v.t = "object" THEN "}" ELSE "]"
         IN  IF Len(v.kv) = 0 THEN << open, close >>
             ELSE << open, "\n" >> \o StringifyMembers(v, 1, indent + 4)
                  \o Spaces(indent) \o << close >>

\* new RegExp(`"${keyword}"`, 'g'): in a pattern '$' is the end-of-input
\* assertion, every other character of a catalog token stands for itself
RegExpOf(chars) ==
    [i \in 1..Len(chars) |->
        IF chars[i] = "$" THEN [kind |-> "end", c |-> ""]
        ELSE [kind |-> "char", c |-> chars[i]]]

RECURSIVE MatchAt(_, _, _, _)
\* the position after a match of pattern elements k.. at position p, 0 if none
MatchAt(text, p, pattern, k) ==
    IF k > Len(pattern) THEN p
    ELSE IF pattern[k].kind = "end"
         THEN IF p = Len(text) + 1 THEN MatchAt(text, p, pattern, k + 1) ELSE 0
         ELSE IF p <= Len(text) /\ text[p] = pattern[k].c
              THEN MatchAt(text, p + 1, pattern, k + 1)
              ELSE 0

\* the leftmost position from p on where the pattern matches, 0 if none
NextMatch(text, p, pattern) ==
    LET found == { q \in p..Len(text) : MatchAt(text, q, pattern, 1) > q }
    IN  IF found = {} THEN 0
        ELSE CHOOSE q \in found : \A r \in found : q <= r

RECURSIVE ReplaceFrom(_, _, _, _)
\* String.prototype.replace(regex, replacement) with the g flag, from p on:
\* the matches are taken left to right and do not overlap
ReplaceFrom(text, p, pattern, replacement) ==
    LET q == NextMatch(text, p, pattern)
    IN  IF q = 0 THEN SubSeq(text, p, Len(text))
        ELSE SubSeq(text, p, q - 1) \o replacement
             \o ReplaceFrom(text, MatchAt(text, q, pattern, 1), pattern, replacement)

StrongOpen == << "<", "s", "t", "r", "o", "n", "g", ">" >>
StrongClose == << "<", "/", "s", "t", "r", "o", "n", "g", ">" >>

RECURSIVE highlightFrom(_, _, _)
highlightFrom(json_string, keywords, i) ==
    IF i > Len(keywords) THEN json_string
    ELSE highlightFrom(
            ReplaceFrom(json_string, 1, RegExpOf(Quoted(keywords[i])),
                        StrongOpen \o Quoted(keywords[i]) \o StrongClose),
            keywords, i + 1)

highlight_not_supported(json_string, keywords) == highlightFrom(json_string, keywords, 1)

Part(name) == [part |-> name, text |-> << >>]
Listing(name, text) == [part |-> name, text |-> text]

\* generate_html_report with the FAQ and the page end written always
generate_html_reportFaqAlways(sd, nsd, sc, nsc, metrics_arg, sizing_arg) ==
    << Part("html_open"), Part("style"), Part("body_open"),
       Part("summary"), Part("supported_operators"), Part("not_supported_operators") >>
    \o (IF sizing_arg # << >> THEN << Part("sizing") >> ELSE << >>)
    \o << Part("supported_commands") >>
    \o [i \in 1..Len(sc) |-> Listing("supported_command", Stringify(sc[i], 0))]
    \o << Part("not_supported_commands") >>
    \o [i \in 1..Len(nsc) |->
          Listing("not_supported_command",
                  highlight_not_supported(Stringify(nsc[i].entry, 0), nsc[i].command_category))]
    \o (IF metrics_arg # << >> THEN << Part("metrics") >> ELSE << >>)
    \o << Part("faq"), Part("script"), Part("body_close"), Part("html_close") >>

\* html_content of generate_html_report at its fs.writeFileSync
generate_html_report(sd, nsd, sc, nsc, metrics_arg, sizing_arg) ==
    << Part("html_open"), Part("style"), Part("body_open"),
       Part("summary"), Part("supported_operators"), Part("not_supported_operators") >>
    \o (IF sizing_arg # << >> THEN << Part("sizing") >> ELSE << >>)
    \o << Part("supported_commands") >>
    \o [i \in 1..Len(sc) |-> Listing("supported_command", Stringify(sc[i], 0))]
    \o << Part("not_supported_commands") >>
    \o [i \in 1..Len(nsc) |->
          Listing("not_supported_command",
                  highlight_not_supported(Stringify(nsc[i].entry, 0), nsc[i].command_category))]
    \o (IF metrics_arg # << >> THEN << Part("metrics") >> ELSE << >>)
    \o (IF metrics_arg = << >>
        THEN << Part("faq"), Part("script"), Part("body_close"), Part("html_close") >>
        ELSE << >>)

(***************************************************************************)
(* Sizing estimator (seven-mode script only).  An optional property of a   *)
(* record is a sequence of length 0 (absent) or 1.                         *)
(***************************************************************************)
\* Math.ceil(n / d) for d > 0
Ceil(n, d) == -((-n) \div d)
\* Math.ceil(x * (n / d)), without forming x * n
CeilTimes(x, n, d) == (x \div d) * n + Ceil((x % d) * n, d)
\* value || 0
OrZero(opt) == IF opt = << >> THEN 0 ELSE opt[1]

DefaultOpsPerCore == 1500
BytesPerMb == 1024 * 1024

\* calculate_cpu_cores with Math.floor for Math.ceil
calculate_cpu_coresFloor(opcounters, uptime_seconds, ops_per_core) ==
    LET total_operations ==
            opcounters.insert + opcounters.query + opcounters.update
            + opcounters.delete + opcounters.getmore + opcounters.command
            + (IF opcounters.deprecated # << >> THEN opcounters.deprecated[1].query ELSE 0)
        ops_per_sec == IF uptime_seconds > 0
                       THEN [num |-> total_operations, den |-> uptime_seconds]
                       ELSE [num |-> 0, den |-> 1]
    IN  [total_operations |-> total_operations,
         ops_per_sec |-> ops_per_sec,
         cpu_cores |-> ops_per_sec.num \div (ops_per_sec.den * ops_per_core)]

calculate_cpu_cores(opcounters, uptime_seconds, ops_per_core) ==
    LET total_operations ==
            opcounters.insert + opcounters.query + opcounters.update
            + opcounters.delete + opcounters.getmore + opcounters.command
            + (IF opcounters.deprecated # << >> THEN opcounters.deprecated[1].query ELSE 0)
        ops_per_sec == IF uptime_seconds > 0
                       THEN [num |-> total_operations, den |-> uptime_seconds]
                       ELSE [num |-> 0, den |-> 1]
    IN  [total_operations |-> total_operations,
         ops_per_sec |-> ops_per_sec,
         cpu_cores |-> Ceil(ops_per_sec.num, ops_per_sec.den * ops_per_core)]

RECURSIVE sumField(_, _, _)
\* for (const db in db_stats) total += db_stats[db][field] || 0
sumField(db_stats, field, i) ==
    IF i > Len(db_stats) THEN 0
    ELSE OrZero(db_stats[i].stats[field]) + sumField(db_stats, field, i + 1)

\* calculate_memory_requirements leaving the index size out of the working set
calculate_memory_requirementsDataOnly(mem_stats, db_stats) ==
    LET working_set_size_bytes == sumField(db_stats, "dataSize", 1)
    IN  [working_set_size_mb |-> [num |-> working_set_size_bytes, den |-> BytesPerMb],
         memory_required_mb |-> Ceil(working_set_size_bytes * 3, BytesPerMb * 2)]

calculate_memory_requirements(mem_stats, db_stats) ==
    LET total_data_size == sumField(db_stats, "dataSize", 1)
        total_index_size == sumField(db_stats, "indexSize", 1)
        working_set_size_bytes == total_data_size + total_index_size
    IN  [working_set_size_mb |-> [num |-> working_set_size_bytes, den |-> BytesPerMb],
         memory_required_mb |-> Ceil(working_set_size_bytes * 3, BytesPerMb * 2)]

\* calculate_storage_requirements with Math.floor for Math.ceil
calculate_storage_requirementsFloor(db_stats) ==
    LET total_storage == sumField(db_stats, "totalSize", 1)
    IN  (total_storage \div 5) * 6 + ((total_storage % 5) * 6) \div 5

calculate_storage_requirements(db_stats) ==
    LET total_storage == sumField(db_stats, "totalSize", 1)
    IN  CeilTimes(total_storage, 6, 5)

\* calculate_network_bandwidth dividing by the uptime whatever it is
calculate_network_bandwidthUnguarded(network_stats, uptime_seconds) ==
    LET bytes_in == OrZero(network_stats.bytesIn)
        bytes_out == OrZero(network_stats.bytesOut)
        total_bytes == bytes_in + bytes_out
    IN  [num |-> total_bytes, den |-> BytesPerMb * uptime_seconds]

calculate_network_bandwidth(network_stats, uptime_seconds) ==
    LET bytes_in == OrZero(network_stats.bytesIn)
        bytes_out == OrZero(network_stats.bytesOut)
        total_bytes == bytes_in + bytes_out
    IN  IF uptime_seconds > 0
        THEN [num |-> total_bytes, den |-> BytesPerMb * uptime_seconds]
        ELSE [num |-> 0, den |-> 1]

calculate_connection_limits(current_connections) == Ceil(current_connections * 3, 2)

(***************************************************************************)
(* Inputs of the classifier: profile entries over a small key alphabet     *)
(* (a supported token, two not-supported tokens, a token of neither        *)
(* catalog, a plain key), nested in objects and in array elements; the     *)
(* only scalar is a string that itself reads like a not-supported token.   *)
(* An entry is {op?, k1: leaf | {k2: leaf} | [{k2: leaf}]}.                *)
(***************************************************************************)
MaxEntries == 2

Keys == {"$gt", "$expr", "$mod", "$comment", "a"}
OuterKeys == {"$gt", "$expr", "a"}
Leaves == {Str("$expr")}
SingleKeyObjects(K, V) == { Obj(<< Prop(k, v) >>) : k \in K, v \in V }
Nested == Leaves \cup SingleKeyObjects(Keys, Leaves)
              \cup { Arr(<< o >>) : o \in SingleKeyObjects(Keys, Leaves) }
Bodies == SingleKeyObjects(OuterKeys, Nested)
OpCommand == << Prop("op", Str("command")) >>
OpQuery == << Prop("op", Str("query")) >>
CommandEntries == { Obj(OpCommand \o b.kv) : b \in Bodies } \cup { Obj(OpCommand) }
OtherEntries == { Obj(OpQuery \o b.kv) : b \in SingleKeyObjects(OuterKeys, Leaves) }
                    \cup SingleKeyObjects(OuterKeys, Leaves)
Entries == CommandEntries \cup OtherEntries
Inputs == UNION { [1..n -> Entries] : n \in 0..MaxEntries }

NoMetricsData == [kind |-> "none", fields |-> {}, content |-> << >>]
NoReportArgs == [metrics |-> << >>, sizing |-> << >>]
\* generate_html_report has not run
NoReport ==
    /\ report_args = NoReportArgs
    /\ html = << >>
\* no MongoClient exists
NoClient ==
    /\ client = "none"
    /\ client_closes = 0
    /\ db_commands = << >>
    /\ databases = << >>

\* main is not running
MainIdle ==
    /\ mode = ""
    /\ rl = "closed"
    /\ console = << >>
    /\ calls = << >>
    /\ files_written = << >>
    /\ metrics_data = NoMetricsData
NoMain ==
    /\ MainIdle
    /\ NoReport
    /\ NoClient

NoCpu == [total_operations |-> 0, ops_per_sec |-> [num |-> 0, den |-> 1], cpu_cores |-> 0]
NoMemory == [working_set_size_mb |-> [num |-> 0, den |-> 1], memory_required_mb |-> 0]
NoMetrics == << >>
\* nothing of perform_sizing has run
NoSizing ==
    /\ metrics = NoMetrics
    /\ cpu = NoCpu
    /\ memory = NoMemory
    /\ storage_required_bytes = 0
    /\ network_bandwidth_mb_sec = [num |-> 0, den |-> 1]
    /\ connection_limits = 0

NoSummary == [total_keywords |-> 0, total_supported |-> 0, total_not_supported |-> 0,
              supported_percent |-> [num |-> 0, den |-> 1]]

\* nothing of analyze_keywords has run
NoAnalysis ==
    /\ data = << >>
    /\ supported_dictionary = << >>
    /\ not_supported_dictionary = << >>
    /\ supported_commands = << >>
    /\ not_supported_commands = << >>
    /\ summary = NoSummary

InitAnalyze ==
    /\ pc = "loaded"
    /\ data \in Inputs
    /\ supported_dictionary = << >>
    /\ not_supported_dictionary = << >>
    /\ supported_commands = << >>
    /\ not_supported_commands = << >>
    /\ summary = NoSummary
    /\ NoSizing
    /\ NoMain

\* mode 5: const {...} = analyze_keywords(profile_data)
AnalyzeKeywords ==
    /\ pc = "loaded"
    /\ LET r == analyze_keywords(data)
       IN  /\ supported_dictionary' = r.sd
           /\ not_supported_dictionary' = r.nsd
           /\ supported_commands' = r.sc
           /\ not_supported_commands' = r.nsc
    /\ pc' = "analyzed"
    /\ UNCHANGED << data, summary, sizingVars, mainVars, reportVars, clientVars >>

\* generate_html_report: const {...} = summarize_keywords(...)
SummarizeKeywords ==
    /\ pc = "analyzed"
    /\ summary' = summarize_keywords(supported_dictionary, not_supported_dictionary)
    /\ pc' = "summarized"
    /\ UNCHANGED << data, supported_dictionary, not_supported_dictionary,
                    supported_commands, not_supported_commands, sizingVars, mainVars, reportVars, clientVars >>

NextAnalyze == AnalyzeKeywords \/ SummarizeKeywords

SpecAnalyze == InitAnalyze /\ [][NextAnalyze]_vars

(***************************************************************************)
(* perform_sizing as a sequence of steps over one metrics snapshot.  The   *)
(* snapshots vary the operation counters and uptime, or the database       *)
(* statistics and the memory record, or the network and connection         *)
(* statistics, around the snapshot of the documented example.              *)
(***************************************************************************)
MaxDatabases == 2

Mib == 1024 * 1024
Absent == << >>
Some(x) == << x >>
ExampleOpcounters == [insert |-> 100, query |-> 200, update |-> 50, delete |-> 10,
                      getmore |-> 5, command |-> 5, deprecated |-> Absent]
ExampleStats == [dataSize |-> Some(100 * Mib), indexSize |-> Some(50 * Mib),
                 totalSize |-> Some(200 * Mib)]
\* absent names what the JSON text lacks below its top level: a nested
\* property that is not there ("connections.current": reading it gives
\* undefined, whatever the record holds in its place) or an object that is
\* null ("connections": reading a property of it throws)
ExampleSnapshot ==
    [opcounters |-> ExampleOpcounters,
     uptimeSeconds |-> 370,
     memory |-> Absent,
     network |-> [bytesIn |-> Some(Mib), bytesOut |-> Some(Mib)],
     connections |-> [current |-> 3],
     dbStats |-> << [name |-> "a", stats |-> ExampleStats] >>,
     absent |-> {}]

OpcounterValues ==
    [insert : {0, 100, 3000}, query : {200, 3000}, update : {50}, delete : {10},
     getmore : {5}, command : {0, 5},
     deprecated : {Absent, Some([query |-> 0]), Some([query |-> 7])}]
UptimeValues == {0, 1, 2, 370}
StatsValues ==
    [dataSize : {Absent, Some(1), Some(100 * Mib)},
     indexSize : {Absent, Some(50 * Mib)},
     totalSize : {Absent, Some(3), Some(200 * Mib)}]
DbNames == << "a", "b", "c", "d" >>
DbStatsValues ==
    UNION { { [i \in 1..n |-> [name |-> DbNames[i], stats |-> s[i]]] : s \in [1..n -> StatsValues] }
            : n \in 0..MaxDatabases }
MemStatsValues == {Absent, Some([resident |-> 100, virtual |-> 2000])}
NetworkValues == [bytesIn : {Absent, Some(0), Some(Mib)}, bytesOut : {Absent, Some(3 * Mib)}]
ConnectionValues == [current : {0, 1, 3}]

Snapshots ==
    { [ExampleSnapshot EXCEPT !.opcounters = o, !.uptimeSeconds = u]
        : o \in OpcounterValues, u \in UptimeValues }
    \cup { [ExampleSnapshot EXCEPT !.dbStats = d, !.memory = m]
        : d \in DbStatsValues, m \in MemStatsValues }
    \cup { [ExampleSnapshot EXCEPT !.network = n, !.connections = c, !.uptimeSeconds = u]
        : n \in NetworkValues, c \in ConnectionValues, u \in {0, 1, 2} }

InitSizing ==
    /\ pc = "sizing_cpu"
    /\ metrics \in Snapshots
    /\ cpu = NoCpu
    /\ memory = NoMemory
    /\ storage_required_bytes = 0
    /\ network_bandwidth_mb_sec = [num |-> 0, den |-> 1]
    /\ connection_limits = 0
    /\ NoAnalysis
    /\ NoMain

\* perform_sizing: calculate_cpu_cores(metrics.opcounters, metrics.uptimeSeconds)
CalculateCpuCores ==
    /\ pc = "sizing_cpu"
    /\ cpu' = calculate_cpu_cores(metrics.opcounters, metrics.uptimeSeconds, DefaultOpsPerCore)
    /\ pc' = "sizing_memory"
    /\ UNCHANGED << analyzeVars, metrics, memory, storage_required_bytes,
                    network_bandwidth_mb_sec, connection_limits, mainVars, reportVars, clientVars >>

\* perform_sizing: calculate_memory_requirements(metrics.memory, db_stats)
CalculateMemoryRequirements ==
    /\ pc = "sizing_memory"
    /\ memory' = calculate_memory_requirements(metrics.memory, metrics.dbStats)
    /\ pc' = "sizing_storage"
    /\ UNCHANGED << analyzeVars, metrics, cpu, storage_required_bytes,
                    network_bandwidth_mb_sec, connection_limits, mainVars, reportVars, clientVars >>

\* perform_sizing: calculate_storage_requirements(db_stats)
CalculateStorageRequirements ==
    /\ pc = "sizing_storage"
    /\ storage_required_bytes' = calculate_storage_requirements(metrics.dbStats)
    /\ pc' = "sizing_network"
    /\ UNCHANGED << analyzeVars, metrics, cpu, memory,
                    network_bandwidth_mb_sec, connection_limits, mainVars, reportVars, clientVars >>

\* perform_sizing: calculate_network_bandwidth(metrics.network, metrics.uptimeSeconds)
CalculateNetworkBandwidth ==
    /\ pc = "sizing_network"
    /\ network_bandwidth_mb_sec' = calculate_network_bandwidth(metrics.network, metrics.uptimeSeconds)
    /\ pc' = "sizing_connections"
    /\ UNCHANGED << analyzeVars, metrics, cpu, memory, storage_required_bytes,
                    connection_limits, mainVars, reportVars, clientVars >>

\* perform_sizing: calculate_connection_limits(metrics.connections.current)
CalculateConnectionLimits ==
    /\ pc = "sizing_connections"
    /\ connection_limits' = calculate_connection_limits(metrics.connections.current)
    /\ pc' = "sized"
    /\ UNCHANGED << analyzeVars, metrics, cpu, memory, storage_required_bytes,
                    network_bandwidth_mb_sec, mainVars, reportVars, clientVars >>

NextSizing ==
    \/ CalculateCpuCores
    \/ CalculateMemoryRequirements
    \/ CalculateStorageRequirements
    \/ CalculateNetworkBandwidth
    \/ CalculateConnectionLimits

SpecSizing == InitSizing /\ [][NextSizing]_vars

(***************************************************************************)
(* main() of the seven-mode script.  Each action runs main from one await  *)
(* or call that can fail to the next.  pc = "rejected" is main's promise   *)
(* rejected by an exception that no try block of main caught.              *)
(***************************************************************************)
\* console.log(...) and console.error(...)
Log(text, args) == [stream |-> "log", text |-> text, args |-> args]
ErrorLog(text) == [stream |-> "error", text |-> text, args |-> << >>]

\* the answers to the mode prompt that are modelled; "8" and "" are not modes
ModeAnswers == {"1", "2", "3", "4", "5", "6", "7", "8", ""}
ConnectionModes == {"1", "2", "3", "4", "6"}

\* the if / else if chain over mode, with every unknown answer taken as mode 1
dispatchDefaultEnable(answer) ==
    IF answer \in ConnectionModes THEN "new_client"
    ELSE IF answer = "5" THEN "m5_exists"
    ELSE IF answer = "7" THEN "m7_exists"
    ELSE "new_client"

\* the if / else if chain over mode: where main continues
dispatch(answer) ==
    IF answer \in ConnectionModes THEN "new_client"
    ELSE IF answer = "5" THEN "m5_exists"
    ELSE IF answer = "7" THEN "m7_exists"
    ELSE "invalid_mode"

\* mode 7: const required_fields = [...]
required_fields == << "opcounters", "uptimeSeconds", "connections", "mem", "network", "dbStats" >>

\* load_json threw: the file cannot be read or is not JSON
Unparsable == [kind |-> "unparsable", fields |-> {}, content |-> << >>]

\* the key under which collect_lifetime_metrics of part_001 stores a field
metrics_key(field) == IF field = "uptime" THEN "uptimeSeconds" ELSE field

\* the key under which collect_lifetime_metrics of mongoAssess.js stores a field
assess_metrics_key(field) ==
    IF field = "uptime" THEN "uptimeSeconds"
    ELSE IF field = "mem" THEN "memory"
    ELSE IF field = "logicalSessionRecordCache" THEN "sessions"
    ELSE field

\* the keys of the JSON text that collect_lifetime_metrics of part_001 writes
\* for a reply carrying the given fields: JSON.stringify leaves out a
\* property whose value is undefined
written_keys(reply) == {"timestamp", "dbStats"} \cup { metrics_key(f) : f \in reply }

\* the same for collect_lifetime_metrics of mongoAssess.js
assess_written_keys(reply) ==
    {"timestamp", "dbStats"} \cup { assess_metrics_key(f) : f \in reply }

\* the snapshot files that mode 6 of either script writes, for serverStatus
\* replies that carry uptime, connections, opcounters, network and mem, with
\* or without the replica-set and storage-engine sections
CollectedFiles ==
    LET Replies == { {"uptime", "connections", "opcounters", "network", "mem"} \cup extra
                       : extra \in SUBSET {"opcountersRepl", "wiredTiger"} }
    IN  { [kind |-> "object", fields |-> written_keys(r), content |-> Some(ExampleSnapshot)]
            : r \in Replies }
        \cup { [kind |-> "object", fields |-> assess_written_keys(r),
                content |-> Some(ExampleSnapshot)] : r \in Replies }

\* what JSON.parse can return for a metrics file: a JSON object with some of
\* the required keys, whose nested properties are all there or not, a file
\* written by mode 6, or a JSON value that is not an object
MetricsContents ==
    { ExampleSnapshot,
      [ExampleSnapshot EXCEPT !.uptimeSeconds = 0, !.memory = Some([resident |-> 100, virtual |-> 2000])],
      [ExampleSnapshot EXCEPT !.absent = {"connections.current"}],
      [ExampleSnapshot EXCEPT !.absent = {"opcounters.insert", "opcounters.command"}],
      [ExampleSnapshot EXCEPT !.absent = {"opcounters.query"}, !.uptimeSeconds = 0],
      [ExampleSnapshot EXCEPT !.absent = {"connections"}] }
MetricsFiles ==
    { [kind |-> "object", fields |-> f, content |-> Some(c)]
        : f \in SUBSET Range(required_fields), c \in MetricsContents }
    \cup CollectedFiles
    \cup { [kind |-> "scalar", fields |-> {}, content |-> Absent] }

\* field in metrics_data
In(field, obj) == field \in obj.fields

\* missing_fields with find for filter: only the first missing field
missing_fieldsFirstOnly(obj) ==
    LET all == SelectSeq(required_fields, LAMBDA field : ~In(field, obj))
    IN  IF all = << >> THEN << >> ELSE << all[1] >>

\* required_fields.filter(field => !(field in metrics_data))
missing_fields(obj) == SelectSeq(required_fields, LAMBDA field : ~In(field, obj))

InitMain ==
    /\ pc = "ask_mode"
    /\ mode = "?"
    /\ rl = "open"
    /\ console = << >>
    /\ calls = << >>
    /\ files_written = << >>
    /\ metrics_data = NoMetricsData
    /\ NoAnalysis
    /\ NoSizing
    /\ NoReport
    /\ NoClient

\* const mode = await question("Enter the mode number: ")
AskMode ==
    /\ pc = "ask_mode"
    /\ \E answer \in ModeAnswers :
          /\ mode' = answer
          /\ pc' = dispatch(answer)
    /\ UNCHANGED << reportVars, clientVars, analyzeVars, sizingVars, rl, console, calls, files_written, metrics_data >>

\* mode 7: the path prompt and the fs.existsSync check
Mode7CheckFile ==
    /\ pc = "m7_exists"
    /\ \E exists \in BOOLEAN :
          IF exists
          THEN /\ pc' = "m7_load"
               /\ UNCHANGED << rl, console >>
          ELSE /\ console' = Append(console, Log("Metrics file does not exist. Please check the path and try again.", << >>))
               /\ rl' = "closed"
               /\ pc' = "returned"
    /\ UNCHANGED << reportVars, clientVars, analyzeVars, sizingVars, mode, calls, files_written, metrics_data >>

\* mode 7: const metrics_data = load_json(metrics_file_path)
Mode7LoadJson ==
    /\ pc = "m7_load"
    /\ calls' = Append(calls, "load_json")
    /\ \/ \E file \in MetricsFiles :
             /\ metrics_data' = file
             /\ pc' = "m7_validate"
       \/ \* readFileSync or JSON.parse throws
          /\ metrics_data' = Unparsable
          /\ pc' = "rejected"
    /\ UNCHANGED << reportVars, clientVars, analyzeVars, sizingVars, mode, rl, console, files_written >>

\* mode 7: the required-fields validation
Mode7Validate ==
    /\ pc = "m7_validate"
    /\ IF metrics_data.kind # "object"
       THEN \* 'opcounters' in 5 throws a TypeError
            /\ pc' = "rejected"
            /\ UNCHANGED << rl, console >>
       ELSE LET missing == missing_fields(metrics_data)
            IN  IF Len(missing) > 0
                THEN /\ console' = Append(console, Log("Metrics JSON file is missing required fields: ", missing))
                     /\ rl' = "closed"
                     /\ pc' = "returned"
                ELSE /\ pc' = "m7_sizing"
                     /\ UNCHANGED << rl, console >>
    /\ UNCHANGED << reportVars, clientVars, analyzeVars, sizingVars, mode, calls, files_written, metrics_data >>

\* whether perform_sizing throws: it reads a property of metrics.opcounters,
\* metrics.network and metrics.connections, a TypeError when one is null
sizing_throws(m) == m.absent \cap {"opcounters", "network", "connections"} # {}

\* the labels of perform_sizing's result whose value is NaN: a sum with an
\* undefined counter is NaN, and so are its quotient and Math.ceil of it when
\* uptime > 0; Math.ceil(undefined * 1.5) is NaN; bytesIn, bytesOut and the
\* database sizes are read with  || 0  and never give NaN
sizing_nan(m) ==
    LET total_nan ==
            m.absent \cap {"opcounters.insert", "opcounters.query", "opcounters.update",
                           "opcounters.delete", "opcounters.getmore", "opcounters.command"} # {}
    IN  (IF total_nan THEN {"Total Operations"} ELSE {})
        \cup (IF total_nan /\ m.uptimeSeconds > 0
              THEN {"Operations per Second (OPS/sec)", "CPU Cores Required"} ELSE {})
        \cup (IF "connections.current" \in m.absent THEN {"Connection Limits"} ELSE {})

\* the values perform_sizing computes for a snapshot, before rounding; a
\* value whose label is in nan is NaN whatever the record holds for it
perform_sizing(m, db_stats) ==
    [cpu |-> calculate_cpu_cores(m.opcounters, m.uptimeSeconds, DefaultOpsPerCore),
     memory |-> calculate_memory_requirements(m.memory, db_stats),
     storage_required_bytes |-> calculate_storage_requirements(db_stats),
     network_bandwidth_mb_sec |-> calculate_network_bandwidth(m.network, m.uptimeSeconds),
     connection_limits |-> calculate_connection_limits(m.connections.current),
     nan |-> sizing_nan(m)]

\* perform_sizing(metrics, db_stats), without the rounding of its result
PerformSizing(m, db_stats) ==
    /\ metrics' = m
    /\ cpu' = calculate_cpu_cores(m.opcounters, m.uptimeSeconds, DefaultOpsPerCore)
    /\ memory' = calculate_memory_requirements(m.memory, db_stats)
    /\ storage_required_bytes' = calculate_storage_requirements(db_stats)
    /\ network_bandwidth_mb_sec' = calculate_network_bandwidth(m.network, m.uptimeSeconds)
    /\ connection_limits' = calculate_connection_limits(m.connections.current)

\* mode 7: const sizing = perform_sizing(metrics_data, metrics_data.dbStats)
Mode7PerformSizing ==
    /\ pc = "m7_sizing"
    /\ calls' = Append(calls, "perform_sizing")
    /\ IF sizing_throws(metrics_data.content[1])
       THEN /\ pc' = "rejected"
            /\ UNCHANGED sizingVars
       ELSE /\ PerformSizing(metrics_data.content[1], metrics_data.content[1].dbStats)
            /\ pc' = "m7_report"
    /\ UNCHANGED << reportVars, clientVars, analyzeVars, mode, rl, console, files_written, metrics_data >>

\* mode 7: generate_html_report({}, {}, [], [], output_file, metrics_data, sizing)
\* and the console.log after it
Mode7GenerateReport ==
    /\ pc = "m7_report"
    /\ calls' = Append(calls, "generate_html_report")
    /\ summary' = summarize_keywords(<< >>, << >>)
    /\ report_args' = [metrics |-> metrics_data.content,
                       sizing |-> Some(perform_sizing(metrics, metrics.dbStats))]
    /\ html' = generate_html_report(<< >>, << >>, << >>, << >>,
                                    report_args'.metrics, report_args'.sizing)
    /\ \/ /\ files_written' = Append(files_written, "sizing_report")
          /\ console' = Append(console, Log("Sizing report has been generated and saved as ", << >>))
          /\ pc' = "rl_close"
       \/ \* fs.writeFileSync throws
          /\ pc' = "rejected"
          /\ UNCHANGED << files_written, console >>
    /\ UNCHANGED << data, supported_dictionary, not_supported_dictionary,
                    supported_commands, not_supported_commands, sizingVars,
                    mode, rl, metrics_data, clientVars >>

\* the catch block of each connection-using mode: console.error(<text>, error.message)
ErrorText ==
    [m \in ConnectionModes |->
        CASE m = "1" -> "Error enabling profiling:"
          [] m = "2" -> "Error disabling profiling:"
          [] m = "3" -> "Error purging profiling data:"
          [] m = "4" -> "Error exporting profiling data:"
          [] m = "6" -> "Error collecting metrics:"]

\* a database operation, the database it was sent to and how it ended
Cmd(cmd, db, outcome) == [cmd |-> cmd, db |-> db, outcome |-> outcome]
CommandOutcomes == {"ok", "error"}
DropOutcomes == {"ok", "NamespaceNotFound", "error"}

\* const connection_string = await question(...); const client = new MongoClient(connection_string)
NewClient ==
    /\ pc = "new_client"
    /\ \/ /\ client' = "created"
          /\ pc' = "connect"
       \/ \* the constructor rejects the connection string, outside the try
          /\ pc' = "rejected"
          /\ UNCHANGED client
    /\ UNCHANGED << analyzeVars, sizingVars, mainVars, reportVars,
                    client_closes, db_commands, databases >>

\* try { await client.connect(); and the prompts that follow it
Connect ==
    /\ pc = "connect"
    /\ \/ /\ client' = "connected"
          /\ pc' = "db_op"
       \/ \* connect rejects
          /\ pc' = "catch"
          /\ UNCHANGED client
    /\ UNCHANGED << analyzeVars, sizingVars, mainVars, reportVars,
                    client_closes, db_commands, databases >>

\* mode 1: enable_profiling(client, db_name)
EnableProfiling ==
    /\ pc = "db_op"
    /\ mode = "1"
    /\ \E outcome \in CommandOutcomes :
          /\ db_commands' = Append(db_commands, Cmd("profile: 2", "db_name", outcome))
          /\ IF outcome = "ok"
             THEN /\ console' = Append(console, Log("Profiling enabled on database ", << >>))
                  /\ pc' = "finally"
             ELSE /\ pc' = "catch"
                  /\ UNCHANGED console
    /\ UNCHANGED << analyzeVars, sizingVars, reportVars, mode, rl, calls, files_written,
                    metrics_data, client, client_closes, databases >>

\* mode 2: disable_profiling(client, db_name)
DisableProfiling ==
    /\ pc = "db_op"
    /\ mode = "2"
    /\ \E outcome \in CommandOutcomes :
          /\ db_commands' = Append(db_commands, Cmd("profile: 0", "db_name", outcome))
          /\ IF outcome = "ok"
             THEN /\ console' = Append(console, Log("Profiling disabled on database ", << >>))
                  /\ pc' = "finally"
             ELSE /\ pc' = "catch"
                  /\ UNCHANGED console
    /\ UNCHANGED << analyzeVars, sizingVars, reportVars, mode, rl, calls, files_written,
                    metrics_data, client, client_closes, databases >>

\* purge_profiling_data with no catch around the drop
purge_resultNoCatch(drop) ==
    IF drop = "ok"
    THEN [thrown |-> FALSE, log |-> << Log("Profiling data purged from database ", << >>) >>]
    ELSE [thrown |-> TRUE, log |-> << >>]

\* the try / catch of purge_profiling_data over the outcome of the drop
purge_result(drop) ==
    IF drop = "ok"
    THEN [thrown |-> FALSE, log |-> << Log("Profiling data purged from database ", << >>) >>]
    ELSE IF drop = "NamespaceNotFound"
         THEN [thrown |-> FALSE, log |-> << Log("No profiling data found in database ", << >>) >>]
         ELSE [thrown |-> TRUE, log |-> << >>]

\* mode 3: purge_profiling_data(client, db_name)
PurgeProfilingData ==
    /\ pc = "db_op"
    /\ mode = "3"
    /\ \E drop \in DropOutcomes :
          /\ db_commands' = Append(db_commands, Cmd("drop system.profile", "db_name", drop))
          /\ console' = console \o purge_result(drop).log
          /\ pc' = IF purge_result(drop).thrown THEN "catch" ELSE "finally"
    /\ UNCHANGED << analyzeVars, sizingVars, reportVars, mode, rl, calls, files_written,
                    metrics_data, client, client_closes, databases >>

\* mode 4: export_profiling_data, the find().toArray()
ExportFind ==
    /\ pc = "db_op"
    /\ mode = "4"
    /\ \E outcome \in CommandOutcomes :
          /\ db_commands' = Append(db_commands, Cmd("find system.profile", "db_name", outcome))
          /\ pc' = IF outcome = "ok" THEN "m4_write" ELSE "catch"
    /\ UNCHANGED << analyzeVars, sizingVars, mainVars, reportVars,
                    client, client_closes, databases >>

\* mode 4: export_profiling_data, the fs.writeFileSync and the console.log
ExportWrite ==
    /\ pc = "m4_write"
    /\ \/ /\ files_written' = Append(files_written, "profiling_data")
          /\ console' = Append(console, Log("Profiling data exported to ", << >>))
          /\ pc' = "finally"
       \/ \* fs.writeFileSync throws
          /\ pc' = "catch"
          /\ UNCHANGED << files_written, console >>
    /\ UNCHANGED << analyzeVars, sizingVars, reportVars, clientVars,
                    mode, rl, calls, metrics_data >>

\* mode 6: collect_lifetime_metrics, the serverStatus command
CollectServerStatus ==
    /\ pc = "db_op"
    /\ mode = "6"
    /\ \E outcome \in CommandOutcomes :
          /\ db_commands' = Append(db_commands, Cmd("serverStatus", "admin", outcome))
          /\ pc' = IF outcome = "ok" THEN "m6_list" ELSE "catch"
    /\ UNCHANGED << analyzeVars, sizingVars, mainVars, reportVars,
                    client, client_closes, databases >>

\* mode 6: collect_lifetime_metrics, adminDb.admin().listDatabases()
CollectListDatabases ==
    /\ pc = "m6_list"
    /\ \/ \E n \in 0..MaxDatabases :
             /\ db_commands' = Append(db_commands, Cmd("listDatabases", "admin", "ok"))
             /\ databases' = SubSeq(DbNames, 1, n)
             /\ pc' = IF n = 0 THEN "m6_write" ELSE "m6_dbstats"
       \/ /\ db_commands' = Append(db_commands, Cmd("listDatabases", "admin", "error"))
          /\ pc' = "catch"
          /\ UNCHANGED databases
    /\ UNCHANGED << analyzeVars, sizingVars, mainVars, reportVars, client, client_closes >>

\* a loop position that counts the failed dbStats commands only, and so
\* never advances
DbStatsIssuedStuck ==
    Len(SelectSeq(db_commands, LAMBDA c : c.cmd = "dbStats" /\ c.outcome = "error"))

\* the dbStats commands issued so far
DbStatsIssued == Len(SelectSeq(db_commands, LAMBDA c : c.cmd = "dbStats"))

\* the loop over databases.databases going on after a failed dbStats
CollectDbStatsBestEffort ==
    /\ pc = "m6_dbstats"
    /\ \E outcome \in CommandOutcomes :
          /\ db_commands' = Append(db_commands,
                                   Cmd("dbStats", databases[DbStatsIssued + 1], outcome))
          /\ pc' = IF DbStatsIssued + 1 = Len(databases) THEN "m6_write" ELSE "m6_dbstats"
    /\ UNCHANGED << analyzeVars, sizingVars, mainVars, reportVars,
                    client, client_closes, databases >>

\* mode 6: collect_lifetime_metrics, one turn of the loop over databases.databases
CollectDbStats ==
    /\ pc = "m6_dbstats"
    /\ \E outcome \in CommandOutcomes :
          /\ db_commands' = Append(db_commands,
                                   Cmd("dbStats", databases[DbStatsIssued + 1], outcome))
          /\ pc' = IF outcome = "error" THEN "catch"
                   ELSE IF DbStatsIssued + 1 = Len(databases) THEN "m6_write"
                   ELSE "m6_dbstats"
    /\ UNCHANGED << analyzeVars, sizingVars, mainVars, reportVars,
                    client, client_closes, databases >>

\* mode 6: collect_lifetime_metrics, the fs.writeFileSync and the console.log
CollectWrite ==
    /\ pc = "m6_write"
    /\ \/ /\ files_written' = Append(files_written, "metrics")
          /\ console' = Append(console, Log("Metrics collected and saved to ", << >>))
          /\ pc' = "finally"
       \/ \* fs.writeFileSync throws
          /\ pc' = "catch"
          /\ UNCHANGED << files_written, console >>
    /\ UNCHANGED << analyzeVars, sizingVars, reportVars, clientVars,
                    mode, rl, calls, metrics_data >>

\* } catch (error) { console.error("Error ...:", error.message); }
CatchError ==
    /\ pc = "catch"
    /\ console' = Append(console, ErrorLog(ErrorText[mode]))
    /\ pc' = "finally"
    /\ UNCHANGED << analyzeVars, sizingVars, reportVars, clientVars,
                    mode, rl, calls, files_written, metrics_data >>

\* a finally block that leaves the client open
ClientCloseSkipped ==
    /\ pc = "finally"
    /\ pc' = "rl_close"
    /\ UNCHANGED << analyzeVars, sizingVars, mainVars, reportVars, clientVars >>

\* } finally { await client.close(); }
ClientClose ==
    /\ pc = "finally"
    /\ client' = "closed"
    /\ client_closes' = client_closes + 1
    /\ pc' = "rl_close"
    /\ UNCHANGED << analyzeVars, sizingVars, mainVars, reportVars, db_commands, databases >>

\* what JSON.parse returns for a profile file: an array of profile entries
ProfileFiles == { << >> } \cup { << e >> : e \in Entries }

\* mode 5: the path prompt and the fs.existsSync check
Mode5CheckFile ==
    /\ pc = "m5_exists"
    /\ \E exists \in BOOLEAN :
          IF exists
          THEN /\ pc' = "m5_load"
               /\ UNCHANGED << rl, console >>
          ELSE /\ console' = Append(console, Log("Profile file does not exist. Please check the path and try again.", << >>))
               /\ rl' = "closed"
               /\ pc' = "returned"
    /\ UNCHANGED << reportVars, clientVars, analyzeVars, sizingVars, mode, calls, files_written, metrics_data >>

\* mode 5 with a load_json that yields an empty profile when parsing fails
Mode5LoadJsonSwallowed ==
    /\ pc = "m5_load"
    /\ calls' = Append(calls, "load_json")
    /\ \/ \E file \in ProfileFiles :
             /\ data' = file
             /\ pc' = "m5_analyze"
             /\ UNCHANGED metrics_data
       \/ /\ metrics_data' = Unparsable
          /\ pc' = "m5_analyze"
          /\ UNCHANGED data
    /\ UNCHANGED << supported_dictionary, not_supported_dictionary, supported_commands,
                    not_supported_commands, summary, sizingVars, reportVars, clientVars,
                    mode, rl, console, files_written >>

\* mode 5: const profile_data = load_json(profile_file_path)
Mode5LoadJson ==
    /\ pc = "m5_load"
    /\ calls' = Append(calls, "load_json")
    /\ \/ \E file \in ProfileFiles :
             /\ data' = file
             /\ pc' = "m5_analyze"
             /\ UNCHANGED metrics_data
       \/ \* readFileSync or JSON.parse throws
          /\ metrics_data' = Unparsable
          /\ pc' = "rejected"
          /\ UNCHANGED data
    /\ UNCHANGED << supported_dictionary, not_supported_dictionary, supported_commands,
                    not_supported_commands, summary, sizingVars, reportVars, clientVars,
                    mode, rl, console, files_written >>

\* mode 5: const {...} = analyze_keywords(profile_data)
Mode5AnalyzeKeywords ==
    /\ pc = "m5_analyze"
    /\ calls' = Append(calls, "analyze_keywords")
    /\ LET r == analyze_keywords(data)
       IN  /\ supported_dictionary' = r.sd
           /\ not_supported_dictionary' = r.nsd
           /\ supported_commands' = r.sc
           /\ not_supported_commands' = r.nsc
    /\ pc' = "m5_report"
    /\ UNCHANGED << data, summary, sizingVars, reportVars, clientVars,
                    mode, rl, console, files_written, metrics_data >>

\* mode 5: generate_html_report(..., output_file, null, null) and the
\* console.log after it
Mode5GenerateReport ==
    /\ pc = "m5_report"
    /\ calls' = Append(calls, "generate_html_report")
    /\ summary' = summarize_keywords(supported_dictionary, not_supported_dictionary)
    /\ report_args' = NoReportArgs
    /\ html' = generate_html_report(supported_dictionary, not_supported_dictionary,
                                    supported_commands, not_supported_commands,
                                    << >>, << >>)
    /\ \/ /\ files_written' = Append(files_written, "report")
          /\ console' = Append(console, Log("HTML report has been generated and saved as ", << >>))
          /\ pc' = "rl_close"
       \/ \* fs.writeFileSync throws
          /\ pc' = "rejected"
          /\ UNCHANGED << files_written, console >>
    /\ UNCHANGED << data, supported_dictionary, not_supported_dictionary,
                    supported_commands, not_supported_commands, sizingVars,
                    mode, rl, metrics_data, clientVars >>

\* else { console.log("Invalid mode selected."); }
InvalidMode ==
    /\ pc = "invalid_mode"
    /\ console' = Append(console, Log("Invalid mode selected.", << >>))
    /\ pc' = "rl_close"
    /\ UNCHANGED << reportVars, clientVars, analyzeVars, sizingVars, mode, rl, calls, files_written, metrics_data >>

\* the rl.close() that ends main
RlClose ==
    /\ pc = "rl_close"
    /\ rl' = "closed"
    /\ pc' = "returned"
    /\ UNCHANGED << reportVars, clientVars, analyzeVars, sizingVars, mode, console, calls, files_written, metrics_data >>

\* main().catch(err => console.error("An error occurred:", err))
TopLevelCatch ==
    /\ pc = "rejected"
    /\ console' = Append(console, ErrorLog("An error occurred:"))
    /\ pc' = "caught"
    /\ UNCHANGED << reportVars, clientVars, analyzeVars, sizingVars, mode, rl, calls, files_written, metrics_data >>

NextMain ==
    \/ AskMode
    \/ NewClient
    \/ Connect
    \/ EnableProfiling
    \/ DisableProfiling
    \/ PurgeProfilingData
    \/ ExportFind
    \/ ExportWrite
    \/ CollectServerStatus
    \/ CollectListDatabases
    \/ CollectDbStats
    \/ CollectWrite
    \/ CatchError
    \/ ClientClose
    \/ Mode5CheckFile
    \/ Mode5LoadJson
    \/ Mode5AnalyzeKeywords
    \/ Mode5GenerateReport
    \/ Mode7CheckFile
    \/ Mode7LoadJson
    \/ Mode7Validate
    \/ Mode7PerformSizing
    \/ Mode7GenerateReport
    \/ InvalidMode
    \/ RlClose
    \/ TopLevelCatch

SpecMain == InitMain /\ [][NextMain]_vars

(***************************************************************************)
(* main of the six-mode script, mongoAssess.js.  It has no try / catch /   *)
(* finally around the client and no handler on main(): an exception leaves *)
(* main at once as an unhandled rejection.  Its positions are the a_...    *)
(* values of pc.                                                           *)
(***************************************************************************)
\* the if / else if chain over mode of mongoAssess.js
assess_dispatch(answer) ==
    IF answer \in ConnectionModes THEN "a_new_client"
    ELSE IF answer = "5" THEN "a_m5_load"
    ELSE "a_invalid_mode"

\* html_content of mongoAssess.js's generate_html_report at its fs.writeFileSync
assess_generate_html_report(sd, nsd, sc, nsc, metrics_arg) ==
    << Part("html_open"), Part("style"), Part("body_open"),
       Part("summary"), Part("supported_operators"), Part("not_supported_operators") >>
    \o (IF metrics_arg # << >> THEN << Part("metrics") >> ELSE << >>)
    \o << Part("supported_commands") >>
    \o [i \in 1..Len(sc) |-> Listing("supported_command", Stringify(sc[i], 0))]
    \o << Part("not_supported_commands") >>
    \o [i \in 1..Len(nsc) |->
          Listing("not_supported_command",
                  highlight_not_supported(Stringify(nsc[i].entry, 0), nsc[i].command_category))]
    \o << Part("faq"), Part("script"), Part("body_close"), Part("html_close") >>

InitAssess ==
    /\ pc = "a_ask_mode"
    /\ mode = "?"
    /\ rl = "open"
    /\ console = << >>
    /\ calls = << >>
    /\ files_written = << >>
    /\ metrics_data = NoMetricsData
    /\ NoAnalysis
    /\ NoSizing
    /\ NoReport
    /\ NoClient

\* const mode = await question("Enter the mode number: ")
AssessAskMode ==
    /\ pc = "a_ask_mode"
    /\ \E answer \in {"1", "2", "3", "4", "5", "6", "7", ""} :  \* "7" and "" are no modes here
          /\ mode' = answer
          /\ pc' = assess_dispatch(answer)
    /\ UNCHANGED << reportVars, clientVars, analyzeVars, sizingVars, rl, console, calls,
                    files_written, metrics_data >>

\* const client = new MongoClient(connection_string)
AssessNewClient ==
    /\ pc = "a_new_client"
    /\ \/ /\ client' = "created"
          /\ pc' = "a_connect"
       \/ \* the constructor rejects the connection string
          /\ pc' = "a_rejected"
          /\ UNCHANGED client
    /\ UNCHANGED << analyzeVars, sizingVars, mainVars, reportVars,
                    client_closes, db_commands, databases >>

\* await client.connect(); and the prompts that follow it
AssessConnect ==
    /\ pc = "a_connect"
    /\ \/ /\ client' = "connected"
          /\ pc' = "a_db_op"
       \/ \* connect rejects
          /\ pc' = "a_rejected"
          /\ UNCHANGED client
    /\ UNCHANGED << analyzeVars, sizingVars, mainVars, reportVars,
                    client_closes, db_commands, databases >>

\* mode 1: enable_profiling(client, db_name)
AssessEnableProfiling ==
    /\ pc = "a_db_op"
    /\ mode = "1"
    /\ \E outcome \in CommandOutcomes :
          /\ db_commands' = Append(db_commands, Cmd("profile: 2", "db_name", outcome))
          /\ IF outcome = "ok"
             THEN /\ console' = Append(console, Log("Profiling enabled on database ", << >>))
                  /\ pc' = "a_close"
             ELSE /\ pc' = "a_rejected"
                  /\ UNCHANGED console
    /\ UNCHANGED << analyzeVars, sizingVars, reportVars, mode, rl, calls, files_written,
                    metrics_data, client, client_closes, databases >>

\* modes 2 and 3: disable_profiling(client, db_name)
AssessDisableProfiling ==
    /\ pc = "a_db_op"
    /\ mode \in {"2", "3"}
    /\ \E outcome \in CommandOutcomes :
          /\ db_commands' = Append(db_commands, Cmd("profile: 0", "db_name", outcome))
          /\ IF outcome = "ok"
             THEN /\ console' = Append(console, Log("Profiling disabled on database ", << >>))
                  /\ pc' = IF mode = "3" THEN "a_purge" ELSE "a_close"
             ELSE /\ pc' = "a_rejected"
                  /\ UNCHANGED console
    /\ UNCHANGED << analyzeVars, sizingVars, reportVars, mode, rl, calls, files_written,
                    metrics_data, client, client_closes, databases >>

\* mongoAssess.js's purge_profiling_data over the outcome of the drop: it has
\* no try / catch, every failure of the drop is thrown
assess_purge_result(drop) ==
    IF drop = "ok"
    THEN [thrown |-> FALSE, log |-> << Log("Profiling data purged from database ", << >>) >>]
    ELSE [thrown |-> TRUE, log |-> << >>]

\* mode 3: purge_profiling_data(client, db_name)
AssessPurgeProfilingData ==
    /\ pc = "a_purge"
    /\ \E drop \in DropOutcomes :
          /\ db_commands' = Append(db_commands, Cmd("drop system.profile", "db_name", drop))
          /\ console' = console \o assess_purge_result(drop).log
          /\ pc' = IF assess_purge_result(drop).thrown THEN "a_rejected" ELSE "a_close"
    /\ UNCHANGED << analyzeVars, sizingVars, reportVars, mode, rl, calls, files_written,
                    metrics_data, client, client_closes, databases >>

\* mode 4: export_profiling_data, the find().toArray()
AssessExportFind ==
    /\ pc = "a_db_op"
    /\ mode = "4"
    /\ \E outcome \in CommandOutcomes :
          /\ db_commands' = Append(db_commands, Cmd("find system.profile", "db_name", outcome))
          /\ pc' = IF outcome = "ok" THEN "a_m4_write" ELSE "a_rejected"
    /\ UNCHANGED << analyzeVars, sizingVars, mainVars, reportVars,
                    client, client_closes, databases >>

\* mode 4: export_profiling_data, the fs.writeFileSync and the console.log
AssessExportWrite ==
    /\ pc = "a_m4_write"
    /\ \/ /\ files_written' = Append(files_written, "profiling_data")
          /\ console' = Append(console, Log("Profiling data exported to ", << >>))
          /\ pc' = "a_close"
       \/ \* fs.writeFileSync throws
          /\ pc' = "a_rejected"
          /\ UNCHANGED << files_written, console >>
    /\ UNCHANGED << analyzeVars, sizingVars, reportVars, clientVars,
                    mode, rl, calls, metrics_data >>

\* mode 6: collect_lifetime_metrics, the serverStatus command
AssessCollectServerStatus ==
    /\ pc = "a_db_op"
    /\ mode = "6"
    /\ \E outcome \in CommandOutcomes :
          /\ db_commands' = Append(db_commands, Cmd("serverStatus", "admin", outcome))
          /\ pc' = IF outcome = "ok" THEN "a_m6_list" ELSE "a_rejected"
    /\ UNCHANGED << analyzeVars, sizingVars, mainVars, reportVars,
                    client, client_closes, databases >>

\* mode 6: collect_lifetime_metrics, adminDb.admin().listDatabases()
AssessCollectListDatabases ==
    /\ pc = "a_m6_list"
    /\ \/ \E n \in 0..MaxDatabases :
             /\ db_commands' = Append(db_commands, Cmd("listDatabases", "admin", "ok"))
             /\ databases' = SubSeq(DbNames, 1, n)
             /\ pc' = IF n = 0 THEN "a_m6_write" ELSE "a_m6_dbstats"
       \/ /\ db_commands' = Append(db_commands, Cmd("listDatabases", "admin", "error"))
          /\ pc' = "a_rejected"
          /\ UNCHANGED databases
    /\ UNCHANGED << analyzeVars, sizingVars, mainVars, reportVars, client, client_closes >>

\* mode 6: collect_lifetime_metrics, one turn of the loop over databases.databases
AssessCollectDbStats ==
    /\ pc = "a_m6_dbstats"
    /\ \E outcome \in CommandOutcomes :
          /\ db_commands' = Append(db_commands,
                                   Cmd("dbStats", databases[DbStatsIssued + 1], outcome))
          /\ pc' = IF outcome = "error" THEN "a_rejected"
                   ELSE IF DbStatsIssued + 1 = Len(databases) THEN "a_m6_write"
                   ELSE "a_m6_dbstats"
    /\ UNCHANGED << analyzeVars, sizingVars, mainVars, reportVars,
                    client, client_closes, databases >>

\* mode 6: collect_lifetime_metrics, the fs.writeFileSync and the console.log
AssessCollectWrite ==
    /\ pc = "a_m6_write"
    /\ \/ /\ files_written' = Append(files_written, "metrics")
          /\ console' = Append(console, Log("Metrics collected and saved to ", << >>))
          /\ pc' = "a_close"
       \/ \* fs.writeFileSync throws
          /\ pc' = "a_rejected"
          /\ UNCHANGED << files_written, console >>
    /\ UNCHANGED << analyzeVars, sizingVars, reportVars, clientVars,
                    mode, rl, calls, metrics_data >>

\* await client.close(), the last statement of each connection-using mode
AssessClientClose ==
    /\ pc = "a_close"
    /\ client' = "closed"
    /\ client_closes' = client_closes + 1
    /\ pc' = "a_rl_close"
    /\ UNCHANGED << analyzeVars, sizingVars, mainVars, reportVars, db_commands, databases >>

\* mode 5: const data = load_json(file_path), with no fs.existsSync before it
AssessMode5LoadJson ==
    /\ pc = "a_m5_load"
    /\ calls' = Append(calls, "load_json")
    /\ \/ \E file \in ProfileFiles :
             /\ data' = file
             /\ pc' = "a_m5_analyze"
             /\ UNCHANGED metrics_data
       \/ \* the file is absent or is not JSON: readFileSync or JSON.parse throws
          /\ metrics_data' = Unparsable
          /\ pc' = "a_rejected"
          /\ UNCHANGED data
    /\ UNCHANGED << supported_dictionary, not_supported_dictionary, supported_commands,
                    not_supported_commands, summary, sizingVars, reportVars, clientVars,
                    mode, rl, console, files_written >>

\* mode 5: const {...} = analyze_keywords(data)
AssessMode5AnalyzeKeywords ==
    /\ pc = "a_m5_analyze"
    /\ calls' = Append(calls, "analyze_keywords")
    /\ LET r == analyze_keywords(data)
       IN  /\ supported_dictionary' = r.sd
           /\ not_supported_dictionary' = r.nsd
           /\ supported_commands' = r.sc
           /\ not_supported_commands' = r.nsc
    /\ pc' = "a_m5_metrics"
    /\ UNCHANGED << data, summary, sizingVars, reportVars, clientVars,
                    mode, rl, console, files_written, metrics_data >>

\* mode 5: the include_metrics prompt and metrics = load_json(metrics_file)
AssessMode5LoadMetrics ==
    /\ pc = "a_m5_metrics"
    /\ \/ \* the answer is not yes: metrics stays null
          /\ pc' = "a_m5_report"
          /\ UNCHANGED << calls, metrics_data, report_args >>
       \/ /\ calls' = Append(calls, "load_json")
          /\ \/ /\ metrics_data' = [kind |-> "object", fields |-> Range(required_fields),
                                    content |-> Some(ExampleSnapshot)]
                /\ report_args' = [metrics |-> Some(ExampleSnapshot), sizing |-> Absent]
                /\ pc' = "a_m5_report"
             \/ \* readFileSync or JSON.parse throws
                /\ metrics_data' = Unparsable
                /\ pc' = "a_rejected"
                /\ UNCHANGED report_args
    /\ UNCHANGED << analyzeVars, sizingVars, clientVars, mode, rl, console, files_written, html >>

\* mode 5: generate_html_report(..., output_file, metrics) and the console.log
\* after it
AssessMode5GenerateReport ==
    /\ pc = "a_m5_report"
    /\ calls' = Append(calls, "generate_html_report")
    /\ summary' = summarize_keywords(supported_dictionary, not_supported_dictionary)
    /\ html' = assess_generate_html_report(supported_dictionary, not_supported_dictionary,
                                           supported_commands, not_supported_commands,
                                           report_args.metrics)
    /\ \/ /\ files_written' = Append(files_written, "report")
          /\ console' = Append(console, Log("HTML report has been generated and saved as ", << >>))
          /\ pc' = "a_rl_close"
       \/ \* fs.writeFileSync throws
          /\ pc' = "a_rejected"
          /\ UNCHANGED << files_written, console >>
    /\ UNCHANGED << data, supported_dictionary, not_supported_dictionary,
                    supported_commands, not_supported_commands, sizingVars,
                    mode, rl, metrics_data, report_args, clientVars >>

\* else { console.log("Invalid mode selected."); }
AssessInvalidMode ==
    /\ pc = "a_invalid_mode"
    /\ console' = Append(console, Log("Invalid mode selected.", << >>))
    /\ pc' = "a_rl_close"
    /\ UNCHANGED << reportVars, clientVars, analyzeVars, sizingVars, mode, rl, calls,
                    files_written, metrics_data >>

\* the rl.close() that ends main
AssessRlClose ==
    /\ pc = "a_rl_close"
    /\ rl' = "closed"
    /\ pc' = "a_returned"
    /\ UNCHANGED << reportVars, clientVars, analyzeVars, sizingVars, mode, console, calls,
                    files_written, metrics_data >>

\* main(); with no handler: the rejection is unhandled, which the runtime
\* reports and, depending on its version, answers by ending the process or
\* by leaving it waiting on the open prompt
AssessUnhandledRejection ==
    /\ pc = "a_rejected"
    /\ console' = Append(console, ErrorLog("UnhandledPromiseRejection"))
    /\ pc' \in {"a_exited", "a_waiting"}
    /\ UNCHANGED << reportVars, clientVars, analyzeVars, sizingVars, mode, rl, calls,
                    files_written, metrics_data >>

NextAssess ==
    \/ AssessAskMode
    \/ AssessNewClient
    \/ AssessConnect
    \/ AssessEnableProfiling
    \/ AssessDisableProfiling
    \/ AssessPurgeProfilingData
    \/ AssessExportFind
    \/ AssessExportWrite
    \/ AssessCollectServerStatus
    \/ AssessCollectListDatabases
    \/ AssessCollectDbStats
    \/ AssessCollectWrite
    \/ AssessClientClose
    \/ AssessMode5LoadJson
    \/ AssessMode5AnalyzeKeywords
    \/ AssessMode5LoadMetrics
    \/ AssessMode5GenerateReport
    \/ AssessInvalidMode
    \/ AssessRlClose
    \/ AssessUnhandledRejection

SpecAssess == InitAssess /\ [][NextAssess]_vars

(***************************************************************************)
(* A run of either script.                                                 *)
(***************************************************************************)
InitScripts == InitMain \/ InitAssess
NextScripts == NextMain \/ NextAssess
SpecScripts == InitScripts /\ [][NextScripts]_vars

(***************************************************************************)
(* generate_html_report as a function of its arguments: a profile is       *)
(* classified and the report is rendered from the classification, with and *)
(* without a metrics snapshot and a sizing result.                         *)
(***************************************************************************)
ReportProfiles ==
    { << >> } \cup { << e >> : e \in Entries }
              \cup { << e, f >> : e \in OtherEntries, f \in CommandEntries }

InitReport ==
    /\ pc = "loaded"
    /\ data \in ReportProfiles
    /\ supported_dictionary = << >>
    /\ not_supported_dictionary = << >>
    /\ supported_commands = << >>
    /\ not_supported_commands = << >>
    /\ summary = NoSummary
    /\ NoSizing
    /\ MainIdle
    /\ report_args \in
          [metrics : {Absent, Some(ExampleSnapshot)},
           sizing : {Absent, Some(perform_sizing(ExampleSnapshot, ExampleSnapshot.dbStats))}]
    /\ html = << >>
    /\ NoClient

\* generate_html_report(sd, nsd, sc, nsc, output_file, metrics, sizing)
GenerateHtmlReport ==
    /\ pc = "analyzed"
    /\ summary' = summarize_keywords(supported_dictionary, not_supported_dictionary)
    /\ html' = generate_html_report(supported_dictionary, not_supported_dictionary,
                                    supported_commands, not_supported_commands,
                                    report_args.metrics, report_args.sizing)
    /\ files_written' = Append(files_written, "report")
    /\ pc' = "reported"
    /\ UNCHANGED << data, supported_dictionary, not_supported_dictionary,
                    supported_commands, not_supported_commands, sizingVars,
                    mode, rl, console, calls, metrics_data, report_args, clientVars >>

NextReport == AnalyzeKeywords \/ GenerateHtmlReport

SpecReport == InitReport /\ [][NextReport]_vars

(***************************************************************************)
(* Reference notions the classifier claims are stated with.                *)
(***************************************************************************)
SupportedSet == Range(supported_keywords)
NotSupportedSet == Range(not_supported_keywords)

RECURSIVE KeysOf(_)
\* the object keys that occur in v, at any nesting depth
KeysOf(v) ==
    { v.kv[i].k : i \in 1..Len(v.kv) } \cup UNION { KeysOf(v.kv[i].v) : i \in 1..Len(v.kv) }

RECURSIVE Occurrences(_, _)
RECURSIVE OccurrencesFrom(_, _, _)
\* how many times K occurs as an object key in v, at any nesting depth
Occurrences(v, K) == OccurrencesFrom(v, K, 1)
OccurrencesFrom(v, K, i) ==
    IF i > Len(v.kv) THEN 0
    ELSE (IF v.t = "object" /\ v.kv[i].k = K THEN 1 ELSE 0)
         + Occurrences(v.kv[i].v, K) + OccurrencesFrom(v, K, i + 1)

RECURSIVE SumOver(_, _)
\* the sum of f over the finite set S
SumOver(S, f) ==
    IF S = {} THEN 0
    ELSE LET x == CHOOSE y \in S : TRUE IN f[x] + SumOver(S \ {x}, f)

CommandIndexes == { i \in 1..Len(data) : HasProp(data[i], "op") /\ PropOf(data[i], "op").s = "command" }
\* occurrences of K as a key over all command entries of the input
CommandOccurrences(K) ==
    SumOver(CommandIndexes, [i \in CommandIndexes |-> Occurrences(data[i], K)])
InSupported(e) == \E j \in 1..Len(supported_commands) : supported_commands[j] = e
InNotSupported(e) == \E j \in 1..Len(not_supported_commands) : not_supported_commands[j].entry = e
Analyzed == pc \in {"analyzed", "summarized"}

\* C1: a command entry is in not_supported_commands iff a not-supported key
\* occurs in it at any nesting depth (in nested objects or array elements);
\* otherwise it is in supported_commands, in particular when it has no
\* '$'-prefixed key at all.
C1_ClassifiedByNotSupportedKey ==
    Analyzed =>
        \A i \in CommandIndexes :
            LET hit == KeysOf(data[i]) \cap NotSupportedSet # {}
            IN  /\ InNotSupported(data[i]) <=> hit
                /\ InSupported(data[i]) <=> ~hit

\* C1 witness: a not-supported key inside an array element put its entry in
\* not_supported_commands, and an entry without any '$' key is supported.
C1_Witness ==
    /\ Analyzed
    /\ \E i \in CommandIndexes :
          /\ InNotSupported(data[i])
          /\ \E j \in 1..Len(data[i].kv) :
                /\ data[i].kv[j].v.t = "array"
                /\ data[i].kv[j].k \notin NotSupportedSet
                /\ KeysOf(data[i].kv[j].v) \cap NotSupportedSet # {}
    /\ \E i \in CommandIndexes :
          /\ InSupported(data[i])
          /\ KeysOf(data[i]) \cap DollarStrings = {}

CountIn(seq, x) == Cardinality({ j \in 1..Len(seq) : seq[j] = x })
NotSupportedEntries == [j \in 1..Len(not_supported_commands) |-> not_supported_commands[j].entry]

\* C2: every command entry of the input is in exactly one of the two output
\* sequences, once per occurrence in the input, so the two lengths sum to the
\* number of command entries.
C2_ExactlyOneSequence ==
    Analyzed =>
        /\ Len(supported_commands) + Len(not_supported_commands) = Cardinality(CommandIndexes)
        /\ \A i \in CommandIndexes :
              /\ ~(InSupported(data[i]) /\ InNotSupported(data[i]))
              /\ CountIn(supported_commands, data[i]) + CountIn(NotSupportedEntries, data[i])
                    = Cardinality({ j \in CommandIndexes : data[j] = data[i] })

\* C2 witness: two command entries went to different sequences.
C2_Witness ==
    /\ Analyzed
    /\ Cardinality(CommandIndexes) = 2
    /\ Len(supported_commands) = 1
    /\ Len(not_supported_commands) = 1

RECURSIVE SelectCommands(_, _)
SelectCommands(d, i) ==
    IF i > Len(d) THEN << >>
    ELSE (IF i \in CommandIndexes THEN << d[i] >> ELSE << >>) \o SelectCommands(d, i + 1)

\* C3: an entry whose op is absent or not "command" is in neither output
\* sequence, and the two count maps are what they are without that entry.
C3_NonCommandSkipped ==
    Analyzed =>
        /\ \A i \in (1..Len(data)) \ CommandIndexes :
              ~InSupported(data[i]) /\ ~InNotSupported(data[i])
        /\ LET r == analyze_keywords(SelectCommands(data, 1))
           IN  /\ supported_dictionary = r.sd
               /\ not_supported_dictionary = r.nsd

\* C3 witness: entries without op and with another op, carrying catalog keys,
\* were analysed and left both maps empty.
C3_Witness ==
    /\ Analyzed
    /\ Len(data) = 2
    /\ ~HasProp(data[1], "op") /\ KeysOf(data[1]) \cap NotSupportedSet # {}
    /\ HasProp(data[2], "op") /\ KeysOf(data[2]) \cap SupportedSet # {}
    /\ CommandIndexes = {}
    /\ supported_dictionary = << >> /\ not_supported_dictionary = << >>

\* C4: the command_category of a not-supported entry lists each not-supported
\* keyword that occurs in the entry exactly once, and nothing else.
C4_TriggersDeduplicated ==
    Analyzed =>
        \A j \in 1..Len(not_supported_commands) :
            LET cc == not_supported_commands[j].command_category
                e == not_supported_commands[j].entry
            IN  /\ Range(cc) = KeysOf(e) \cap NotSupportedSet
                /\ \A a, b \in 1..Len(cc) : cc[a] = cc[b] => a = b

\* C4 witness: a keyword occurring twice in one entry is listed once, next to
\* an entry with another keyword and one mixing in a supported keyword.
C4_Witness ==
    /\ Analyzed
    /\ Len(not_supported_commands) = 2
    /\ Occurrences(not_supported_commands[1].entry, "$expr") = 2
    /\ not_supported_commands[1].command_category = << "$expr" >>
    /\ Occurrences(not_supported_commands[2].entry, "$gt") = 1
    /\ not_supported_commands[2].command_category = << "$mod" >>

DictKeys(dict) == { dict[i].key : i \in 1..Len(dict) }
DictTotal(dict) == SumOver(1..Len(dict), [i \in 1..Len(dict) |-> dict[i].count])
KeysInData == UNION { KeysOf(data[i]) : i \in 1..Len(data) }

\* C5: the count under K in the supported (not-supported) map is the number
\* of key occurrences of K over all command entries; keys of neither catalog
\* and '$' string values count nowhere; the counts add up to the number of
\* catalog key occurrences.
C5_CountsAreKeyOccurrences ==
    Analyzed =>
        /\ \A K \in KeysInData \cup DictKeys(supported_dictionary)
                               \cup DictKeys(not_supported_dictionary) :
              /\ Get(supported_dictionary, K)
                    = IF K \in SupportedSet THEN CommandOccurrences(K) ELSE 0
              /\ Get(not_supported_dictionary, K)
                    = IF K \in NotSupportedSet THEN CommandOccurrences(K) ELSE 0
        /\ \A a, b \in 1..Len(supported_dictionary) :
              supported_dictionary[a].key = supported_dictionary[b].key => a = b
        /\ \A a, b \in 1..Len(not_supported_dictionary) :
              not_supported_dictionary[a].key = not_supported_dictionary[b].key => a = b
        /\ DictTotal(supported_dictionary) + DictTotal(not_supported_dictionary)
              = SumOver(KeysInData \cap (SupportedSet \cup NotSupportedSet),
                        [K \in KeysInData |-> CommandOccurrences(K)])

\* C5 witness: a keyword was counted across two entries, one of them with a
\* key of neither catalog, all of them with a '$' string value.
C5_Witness ==
    /\ Analyzed
    /\ CommandIndexes = {1, 2}
    /\ Occurrences(data[1], "$expr") = 1 /\ Occurrences(data[1], "$comment") = 1
    /\ Occurrences(data[2], "$expr") = 2
    /\ Get(not_supported_dictionary, "$expr") = 3
    /\ supported_dictionary = << >>

\* C6: supported_percent = 100 * total_supported / (total_supported +
\* total_not_supported), within [0, 100], and 0, with no division by zero,
\* when both totals are 0.
C6_PercentInRange ==
    pc = "summarized" =>
        LET ts == DictTotal(supported_dictionary)
            tns == DictTotal(not_supported_dictionary)
            p == summary.supported_percent
        IN  /\ p.den > 0
            /\ p.num * (ts + tns) = 100 * ts * p.den
            /\ 0 <= p.num /\ p.num <= 100 * p.den
            /\ (ts + tns = 0) => p.num = 0

\* C6 witness: a percentage strictly between 0 and 100 was computed.
C6_Witness ==
    /\ pc = "summarized"
    /\ summary.total_supported = 1
    /\ summary.total_not_supported = 3
    /\ summary.supported_percent.num = 25 * summary.supported_percent.den

\* C6 witness: no keyword at all gives 0.
C6_WitnessZero ==
    /\ pc = "summarized"
    /\ Len(data) > 0
    /\ summary.total_keywords = 0
    /\ summary.supported_percent.num = 0

RECURSIVE IsSubsequenceFrom(_, _, _, _)
\* s from position i on can be read off d from position j on, in order
IsSubsequenceFrom(s, i, d, j) ==
    IF i > Len(s) THEN TRUE
    ELSE IF j > Len(d) THEN FALSE
    ELSE IF s[i] = d[j] THEN IsSubsequenceFrom(s, i + 1, d, j + 1)
         ELSE IsSubsequenceFrom(s, i, d, j + 1)

\* C19: each output sequence of analyze_keywords lists its entries in the
\* relative order of the input: it is a subsequence of the input.
C19_OutputsKeepInputOrder ==
    Analyzed =>
        /\ IsSubsequenceFrom(supported_commands, 1, data, 1)
        /\ IsSubsequenceFrom(NotSupportedEntries, 1, data, 1)

\* C19 witness: two different supported entries, or two different
\* not-supported entries, came out in input order.
C19_Witness ==
    /\ Analyzed
    /\ Len(data) = 2
    /\ data[1] # data[2]
    /\ \/ supported_commands = data
       \/ NotSupportedEntries = data

\* no token is in both catalogs
CatalogsDisjoint == SupportedSet \cap NotSupportedSet = {}
\* the '$' keys of the input are each of exactly one kind
ExactlyOneKind(K) ==
    Cardinality({ kind \in {"supported", "not_supported", "unrecognized"} :
                    \/ kind = "supported" /\ K \in SupportedSet
                    \/ kind = "not_supported" /\ K \in NotSupportedSet
                    \/ kind = "unrecognized" /\ K \notin SupportedSet \cup NotSupportedSet }) = 1

\* C27: the two catalogs are disjoint, so every '$' key of the input is of
\* exactly one of the kinds supported, not-supported, unrecognized, no key is
\* in both count maps, and each map holds keys of its own catalog only.
C27_CatalogsDisjointOneMapPerKey ==
    /\ CatalogsDisjoint
    /\ \A K \in KeysInData \cap DollarStrings : ExactlyOneKind(K)
    /\ Analyzed =>
          /\ DictKeys(supported_dictionary) \cap DictKeys(not_supported_dictionary) = {}
          /\ DictKeys(supported_dictionary) \subseteq SupportedSet \ NotSupportedSet
          /\ DictKeys(not_supported_dictionary) \subseteq NotSupportedSet \ SupportedSet

\* C27 witness: a supported key, a not-supported key and a key of neither
\* catalog were analysed, each counted in its own map or in none.
C27_Witness ==
    /\ Analyzed
    /\ CommandIndexes = {1, 2}
    /\ {"$gt", "$expr", "$comment"} \subseteq KeysInData
    /\ DictKeys(supported_dictionary) = {"$gt"}
    /\ DictKeys(not_supported_dictionary) = {"$expr"}

(***************************************************************************)
(* Sizing claims.                                                          *)
(***************************************************************************)
CpuDone == pc \in {"sizing_memory", "sizing_storage", "sizing_network",
                   "sizing_connections", "sized"}
MemoryDone == pc \in {"sizing_storage", "sizing_network", "sizing_connections", "sized"}
StorageDone == pc \in {"sizing_network", "sizing_connections", "sized"}
SixCounters(o) == o.insert + o.query + o.update + o.delete + o.getmore + o.command
\* c = ceil(n / d), stated without division
IsCeilOf(c, n, d) == c * d >= n /\ (c - 1) * d < n

\* the part of C7 that does not concern total_operations
CpuRates ==
    /\ cpu.ops_per_sec.den > 0
    /\ cpu.ops_per_sec.num * metrics.uptimeSeconds = cpu.total_operations * cpu.ops_per_sec.den
    /\ IsCeilOf(cpu.cpu_cores, cpu.ops_per_sec.num, cpu.ops_per_sec.den * 1500)
CpuExample ==
    (metrics.opcounters = ExampleOpcounters /\ metrics.uptimeSeconds = 370) =>
        /\ cpu.total_operations = 370
        /\ cpu.ops_per_sec.num = 1 * cpu.ops_per_sec.den
        /\ cpu.cpu_cores = 1

\* C7 as stated: for uptime_seconds > 0, total_operations is the sum of
\* exactly the six counters, ops_per_sec = total_operations / uptime_seconds
\* and cpu_cores = ceil(ops_per_sec / 1500); the example gives 370, 1 and 1.
C7_TotalIsSixCounters ==
    (CpuDone /\ metrics.uptimeSeconds > 0) =>
        /\ cpu.total_operations = SixCounters(metrics.opcounters)
        /\ CpuRates
        /\ CpuExample

\* C7 amended: total_operations is the sum of the six counters plus
\* opcounters.deprecated.query when opcounters.deprecated is present; the
\* rates and the example (which has no deprecated record) are as stated.
C7_TotalIncludesDeprecatedQuery ==
    (CpuDone /\ metrics.uptimeSeconds > 0) =>
        /\ cpu.total_operations
              = SixCounters(metrics.opcounters)
                + (IF metrics.opcounters.deprecated = Absent THEN 0
                   ELSE metrics.opcounters.deprecated[1].query)
        /\ CpuRates
        /\ CpuExample

\* C7 witness: a snapshot with a deprecated query counter of 7 was sized and
\* needs three cores.
C7_Witness ==
    /\ CpuDone
    /\ metrics.uptimeSeconds > 0
    /\ metrics.opcounters.deprecated = Some([query |-> 7])
    /\ cpu.total_operations = SixCounters(metrics.opcounters) + 7
    /\ cpu.cpu_cores = 3

DbIndexes == 1..Len(metrics.dbStats)
WorkingSetBytes ==
    SumOver(DbIndexes, [i \in DbIndexes |->
        OrZero(metrics.dbStats[i].stats.dataSize) + OrZero(metrics.dbStats[i].stats.indexSize)])
TotalSizeBytes ==
    SumOver(DbIndexes, [i \in DbIndexes |-> OrZero(metrics.dbStats[i].stats.totalSize)])

\* C8: working_set_size_mb = (sum of dataSize + sum of indexSize) / (1024*1024),
\* memory_required_mb = ceil(working_set_size_mb * 1.5); one database with
\* 100 MiB data and 50 MiB index gives 150 and 225; the memory statistics
\* argument does not matter.
C8_MemoryFromWorkingSet ==
    MemoryDone =>
        /\ memory.working_set_size_mb.num = WorkingSetBytes
        /\ memory.working_set_size_mb.den = 1024 * 1024
        /\ IsCeilOf(memory.memory_required_mb, 3 * WorkingSetBytes, 2 * 1024 * 1024)
        /\ (metrics.dbStats = ExampleSnapshot.dbStats) =>
              /\ memory.working_set_size_mb.num = 150 * memory.working_set_size_mb.den
              /\ memory.memory_required_mb = 225
        /\ \A m \in MemStatsValues :
              memory = calculate_memory_requirements(m, metrics.dbStats)

\* C8 witness: two databases, one lacking dataSize, with a memory record
\* present, needed a rounded-up amount of memory.
C8_Witness ==
    /\ MemoryDone
    /\ Len(metrics.dbStats) = 2
    /\ metrics.memory # Absent
    /\ metrics.dbStats[1].stats.dataSize = Absent
    /\ metrics.dbStats[2].stats.dataSize = Some(1)
    /\ memory.memory_required_mb = 76

\* C9: storage_required_bytes = ceil(1.2 * sum of totalSize), a database
\* without totalSize counting 0, and it is never below the summed totalSize.
C9_StorageWithHeadroom ==
    StorageDone =>
        /\ 5 * (storage_required_bytes - TotalSizeBytes) >= TotalSizeBytes
        /\ 5 * (storage_required_bytes - TotalSizeBytes) < TotalSizeBytes + 5
        /\ storage_required_bytes >= TotalSizeBytes

\* C9 witness: a database without totalSize next to one of 3 bytes gave 4.
C9_Witness ==
    /\ StorageDone
    /\ Len(metrics.dbStats) = 2
    /\ metrics.dbStats[1].stats.totalSize = Absent
    /\ metrics.dbStats[2].stats.totalSize = Some(3)
    /\ storage_required_bytes = 4

NetworkDone == pc \in {"sizing_connections", "sized"}
\* the quotient q is the number 0
IsZero(q) == q.num = 0 /\ q.den > 0

\* C22: with uptime_seconds = 0 nothing is divided by zero: ops_per_sec and
\* cpu_cores are 0 whatever the counters are, and the network bandwidth is 0
\* whatever bytesIn and bytesOut are.
C22_ZeroUptimeGivesZeroRates ==
    metrics.uptimeSeconds = 0 =>
        /\ CpuDone => (IsZero(cpu.ops_per_sec) /\ cpu.cpu_cores = 0)
        /\ NetworkDone => IsZero(network_bandwidth_mb_sec)

\* C22 witness: a snapshot with 3000 inserts, traffic in both directions and
\* uptime 0 was sized to zero cores and zero bandwidth.
C22_Witness ==
    /\ pc = "sized"
    /\ metrics.uptimeSeconds = 0
    /\ metrics.opcounters.insert = 3000
    /\ metrics.network.bytesIn = Some(Mib)
    /\ metrics.network.bytesOut = Some(Mib)
    /\ cpu.total_operations > 0
    /\ cpu.cpu_cores = 0
    /\ IsZero(network_bandwidth_mb_sec)

(***************************************************************************)
(* Claims about the rendered report.                                       *)
(***************************************************************************)
Reported == pc = "reported"
HasPart(name) == \E i \in 1..Len(html) : html[i].part = name
NotSupportedListings == SelectSeq(html, LAMBDA p : p.part = "not_supported_command")

\* whether sub occurs in text at position p
OccursAt(text, sub, p) ==
    /\ p + Len(sub) - 1 <= Len(text)
    /\ \A k \in 1..Len(sub) : text[p + k - 1] = sub[k]
\* the number of occurrences of sub in text
CountSub(text, sub) == Cardinality({ p \in 1..Len(text) : OccursAt(text, sub, p) })

\* C13: in the listing of every not-supported entry, every occurrence of
\* each quoted triggering keyword of the entry's JSON text is wrapped in
\* <strong>...</strong>.
C13_TriggersAreMarked ==
    Reported =>
        /\ Len(NotSupportedListings) = Len(not_supported_commands)
        /\ \A i \in 1..Len(not_supported_commands) :
              \A k \in Range(not_supported_commands[i].command_category) :
                 LET json == Stringify(not_supported_commands[i].entry, 0)
                     marked == StrongOpen \o Quoted(k) \o StrongClose
                 IN  /\ CountSub(json, Quoted(k)) >= 1
                     /\ CountSub(NotSupportedListings[i].text, marked)
                            = CountSub(json, Quoted(k))

C15_ReportIsComplete ==
    Reported =>
        /\ HasPart("style")
        /\ HasPart("script")
        /\ HasPart("body_close")
        /\ HasPart("html_close")

(***************************************************************************)
(* Claims about main.                                                      *)
(***************************************************************************)
Called(f) == \E i \in 1..Len(calls) : calls[i] = f
LacksRequiredKey ==
    /\ mode = "7"
    /\ metrics_data.kind = "object"
    /\ \E f \in {"opcounters", "uptimeSeconds", "connections", "mem", "network", "dbStats"} :
          f \notin metrics_data.fields
\* the required keys that the loaded object lacks, in the required order
MissingInOrder ==
    LET order == << "opcounters", "uptimeSeconds", "connections", "mem", "network", "dbStats" >>
        F[i \in 0..Len(order)] ==
            IF i = 0 THEN << >>
            ELSE IF order[i] \in metrics_data.fields THEN F[i - 1]
                 ELSE Append(F[i - 1], order[i])
    IN  F[Len(order)]

\* C10: in mode 7, when the loaded metrics object lacks a required key, the
\* run reports every missing key in the required order, never calls
\* perform_sizing and writes no report file.
C10_MissingFieldsRejected ==
    LacksRequiredKey =>
        /\ ~Called("perform_sizing")
        /\ ~Called("generate_html_report")
        /\ files_written = << >>
        /\ pc \in {"m7_validate", "returned"}
        /\ pc = "returned" =>
              /\ Len(console) = 1
              /\ console[1].text = "Metrics JSON file is missing required fields: "
              /\ console[1].args = MissingInOrder

\* C10 witness: a file lacking mem and network was rejected with both named.
C10_Witness ==
    /\ mode = "7"
    /\ pc = "returned"
    /\ metrics_data.kind = "object"
    /\ metrics_data.fields = {"opcounters", "uptimeSeconds", "connections", "dbStats"}
    /\ console = << Log("Metrics JSON file is missing required fields: ", << "mem", "network" >>) >>
    /\ files_written = << >>

HasErrorLog == \E i \in 1..Len(console) : console[i].stream = "error"
PurgeIssued == mode = "3" /\ db_commands # << >>

\* C11: in mode 3, a drop that fails with NamespaceNotFound makes
\* purge_profiling_data return normally with no error reported; a drop that
\* fails otherwise leaves purge_profiling_data as an error, which the mode
\* then reports.
C11_PurgeToleratesMissingCollection ==
    PurgeIssued =>
        /\ db_commands[1].outcome = "NamespaceNotFound" =>
              /\ pc \in {"finally", "rl_close", "returned"}
              /\ ~HasErrorLog
              /\ console = << Log("No profiling data found in database ", << >>) >>
        /\ db_commands[1].outcome = "error" =>
              /\ pc \in {"catch", "finally", "rl_close", "returned"}
              /\ pc # "catch" => console = << ErrorLog("Error purging profiling data:") >>

\* C11 witness: a purge that met no system.profile collection ran to the end.
C11_Witness ==
    /\ PurgeIssued
    /\ db_commands = << Cmd("drop system.profile", "db_name", "NamespaceNotFound") >>
    /\ pc = "returned"
    /\ ~HasErrorLog

\* C12: in modes 1, 2, 3, 4 and 6 the client created for the mode is closed
\* exactly once on every exit path of the mode, and before the prompt
\* interface is closed.
C12_ClientClosedOnceBeforePrompt ==
    (mode \in ConnectionModes /\ client # "none") =>
        /\ client_closes <= 1
        /\ client = "closed" <=> client_closes = 1
        /\ pc \notin {"rejected", "caught"}
        /\ pc \in {"rl_close", "returned"} => client_closes = 1
        /\ rl = "closed" => client = "closed"

\* C12 witness: an export whose file write failed ended with the client
\* closed once.
C12_Witness ==
    /\ mode = "4"
    /\ pc = "returned"
    /\ db_commands = << Cmd("find system.profile", "db_name", "ok") >>
    /\ files_written = << >>
    /\ HasErrorLog
    /\ client = "closed"
    /\ client_closes = 1

FileAbsent ==
    /\ pc = "returned"
    /\ console # << >>
    /\ console[1].text \in
          {"Profile file does not exist. Please check the path and try again.",
           "Metrics file does not exist. Please check the path and try again."}
FileUnparsable == metrics_data.kind = "unparsable"

\* C16: in modes 5 and 7, when the input file is absent or is not JSON,
\* analyze_keywords and perform_sizing are never called and no report file
\* is written.
C16_BadFileStopsBeforeProcessing ==
    (mode \in {"5", "7"} /\ (FileAbsent \/ FileUnparsable)) =>
        /\ ~Called("analyze_keywords")
        /\ ~Called("perform_sizing")
        /\ ~Called("generate_html_report")
        /\ files_written = << >>

\* C16 witness: a mode-5 run over a file that is not JSON reached the
\* top-level handler.
C16_Witness ==
    /\ mode = "5"
    /\ FileUnparsable
    /\ pc = "caught"
    /\ calls = << "load_json" >>

UnrecognisedMode == mode \notin {"?", "1", "2", "3", "4", "5", "6", "7"}

\* C17: an answer that is no mode number is reported, no client is created,
\* no database command is issued, no file is written, the prompt interface
\* is closed and no error is logged.
C17_InvalidModeDoesNothing ==
    UnrecognisedMode =>
        /\ client = "none"
        /\ client_closes = 0
        /\ db_commands = << >>
        /\ files_written = << >>
        /\ calls = << >>
        /\ ~HasErrorLog
        /\ pc \in {"invalid_mode", "rl_close", "returned"}
        /\ pc # "invalid_mode" => console = << Log("Invalid mode selected.", << >>) >>
        /\ pc = "returned" => rl = "closed"

\* C17 witness: the answer "8" was reported and the run returned.
C17_Witness ==
    /\ mode = "8"
    /\ pc = "returned"
    /\ rl = "closed"
    /\ console = << Log("Invalid mode selected.", << >>) >>

\* C20: every run of main that has ended, by returning or through the
\* top-level handler, has the prompt interface closed, and an error that
\* reached the top level was logged.
C20_EveryRunEndsWithPromptClosed ==
    pc \in {"returned", "caught"} =>
        /\ rl = "closed"
        /\ pc = "caught" => HasErrorLog

(***************************************************************************)
(* Claims about the database work of both scripts.                         *)
(***************************************************************************)
AssessPositions ==
    {"a_ask_mode", "a_new_client", "a_connect", "a_db_op", "a_purge", "a_m4_write",
     "a_m6_list", "a_m6_dbstats", "a_m6_write", "a_close", "a_m5_load", "a_m5_analyze",
     "a_m5_metrics", "a_m5_report", "a_invalid_mode", "a_rl_close", "a_rejected",
     "a_returned", "a_exited", "a_waiting"}
\* the run is one of mongoAssess.js
InAssess == pc \in AssessPositions
RunEnded == pc \in {"returned", "caught", "a_returned", "a_exited", "a_waiting"}
AllSucceeded == \A i \in 1..Len(db_commands) : db_commands[i].outcome = "ok"

\* C21 as stated: a mode performs at most one database command or scan and
\* writes at most one output file.
C21_AtMostOneCommand ==
    /\ Len(db_commands) <= 1
    /\ Len(files_written) <= 1

\* C21 amended: modes 1, 2 and 4 issue at most one database operation, mode 3
\* one (two in mongoAssess.js: profile 0, then the drop), mode 6 up to two
\* plus one dbStats per listed database; every operation is issued on a
\* connected client, and at most one file is written.
C21_CommandsBoundedPerMode ==
    /\ Len(files_written) <= 1
    /\ db_commands # << >> => client \in {"connected", "closed"}
    /\ mode \notin ConnectionModes => db_commands = << >>
    /\ mode \in {"1", "2", "4"} => Len(db_commands) <= 1
    /\ mode = "3" => Len(db_commands) <= (IF InAssess THEN 2 ELSE 1)
    /\ mode = "6" => Len(db_commands) <= 2 + Len(databases)

\* C21 witness: a metrics collection over two databases issued four
\* commands and wrote one file.
C21_Witness ==
    /\ mode = "6"
    /\ Len(databases) = 2
    /\ Len(db_commands) = 4
    /\ AllSucceeded
    /\ files_written = << "metrics" >>
    /\ client = "closed"

\* C24: in mode 4 the export file is written only after the scan succeeded;
\* in mode 6 the metrics file is written only after serverStatus,
\* listDatabases and the dbStats of every listed database succeeded; after
\* any failure no file is written.
C24_OutputOnlyAfterAllSucceeded ==
    /\ (mode = "4" /\ files_written # << >>) =>
          /\ files_written = << "profiling_data" >>
          /\ db_commands = << Cmd("find system.profile", "db_name", "ok") >>
    /\ (mode = "6" /\ files_written # << >>) =>
          /\ files_written = << "metrics" >>
          /\ Len(db_commands) = 2 + Len(databases)
          /\ db_commands[1] = Cmd("serverStatus", "admin", "ok")
          /\ db_commands[2] = Cmd("listDatabases", "admin", "ok")
          /\ \A i \in 1..Len(databases) :
                db_commands[2 + i] = Cmd("dbStats", databases[i], "ok")
    /\ (mode \in {"4", "6"} /\ ~AllSucceeded) => files_written = << >>

\* C24 witness: a metrics collection whose second dbStats failed ended with
\* no file written.
C24_Witness ==
    /\ mode = "6"
    /\ RunEnded
    /\ Len(databases) = 2
    /\ Len(db_commands) = 4
    /\ db_commands[3].outcome = "ok"
    /\ db_commands[4] = Cmd("dbStats", "b", "error")
    /\ files_written = << >>

\* C26: in mongoAssess.js, a client that was created is closed on every exit
\* path of modes 1, 2, 3, 4 and 6.
C26_AssessClientClosedOnExit ==
    (InAssess /\ RunEnded /\ client # "none") => client = "closed"

PassesValidation ==
    /\ mode = "7"
    /\ metrics_data.kind = "object"
    /\ \A f \in {"opcounters", "uptimeSeconds", "connections", "mem", "network", "dbStats"} :
          f \in metrics_data.fields
SizingOver == pc \in {"m7_report", "rl_close", "returned", "rejected", "caught"}

\* C23: for every metrics object that passes the validation of mode 7,
\* perform_sizing returns and every numeric field of its result is a defined
\* number, so any report written shows numbers only.
C23_ValidatedSnapshotFullySized ==
    (PassesValidation /\ SizingOver) =>
        /\ pc = "m7_report" \/ Called("generate_html_report")
        /\ Called("generate_html_report") => report_args.sizing[1].nan = {}

\* C25: a snapshot file written by mode 6 of either script, from a
\* serverStatus reply carrying uptime, connections, opcounters, network and
\* mem, passes the validation of mode 7 and gets its sizing report.
C25_CollectedSnapshotIsAccepted ==
    (mode = "7" /\ metrics_data \in CollectedFiles /\ pc = "returned") =>
        files_written = << "sizing_report" >>

====
